---- MODULE Spec2Model ----
(***************************************************************************)
(* periodic-audit: the audit orchestration engine.                         *)
(*                                                                         *)
(*   SpecSplit  split_json_parts (src/audit.rs), scanned one character     *)
(*              per step over bounded inputs.                              *)
(*   SpecAudit  audit_binaries (src/audit.rs) applied to one bounded       *)
(*              environment (file system, auditor subprocess).             *)
(*   Spec       async_main / main (src/main.rs): the retry loop around     *)
(*              audit_binaries, the report dispatch and the exit status.   *)
(*   SpecReport a Report (src/report.rs) under new, add, add_message,      *)
(*              fail and its Display.                                      *)
(*   SpecMail   report::mail::send_report (src/report/mail.rs): the tasks  *)
(*              of one dispatch, interleaved; SpecMailFair adds the        *)
(*              fairness of the runtime.                                   *)
(*                                                                         *)
(* Text is a sequence of one-character strings.                            *)
(***************************************************************************)
EXTENDS Integers, Sequences, FiniteSets, TLC

VARIABLES
    \* ---- split_json_parts (src/audit.rs:17-83)
    input,              \* the text being split
    expected_nr_parts,  \* the capacity hint
    pos,                \* index of the next character of input.chars()
    parts,              \* Vec<String>: parts emitted so far
    part,               \* String: text accumulated since the last split point
    indent,             \* i32 brace depth
    in_string,          \* bool
    escape,             \* bool
    split_pc,           \* "idle" | "scan" | "done"
    split_result,       \* the ah::Result returned, once split_pc = "done"
    objs,               \* history: the object literals input was built from
    \* ---- one call of audit_binaries (src/audit.rs:85-224)
    audit_config,       \* the Config the call reads
    audit_env,          \* what the call finds outside the process
    audit_pc,           \* "idle" | "call" | "done"
    audit_returned,     \* the Result<Report, Report> returned
    \* ---- async_main / main (src/main.rs:51-115)
    conf,               \* the configuration file's content
    opts,               \* the command line options
    main_pc,            \* "idle" | "load" | "audit" | "sleep" | "send" | "notify" | "exit"
    tries,              \* u32 counter of failed attempts
    report,             \* the Report bound by the loop
    dur,                \* seconds of the backoff sleep in progress
    exit_code,          \* -1 while running, then the process exit status
    mail_sent,          \* the messages handed to transport.send, in order
    attempts,           \* history: calls of audit_binaries so far
    produced,           \* history: what the last call of audit_binaries returned
    last_env,           \* history: the environment the last attempt met
    sleeps,             \* history: backoff sleeps started so far
    outcome,            \* history: how the loop ended: "Success" | "GivenUp"
    dispatched,         \* history: the Report passed to send_report
    chan,               \* history: per channel "not_attempted" | "ok" | "err"
    \* ---- a Report under its operations (src/report.rs:29-106)
    rep,                \* the Report
    rep_pc,             \* "idle" | "open" | "rendered"
    rendered,           \* what Display wrote when the Report was last formatted
    \* ---- report::mail::send_report (src/report/mail.rs:14-76)
    mail_conf,          \* the Config the dispatch reads
    mail_report,        \* the Report dispatched
    mail_pc,            \* "idle" | "start" | "join" | "done"
    mail_messages,      \* Vec<Message>: the messages built, one per recipient
    tasks,              \* per spawned task "waiting" | "sending" | "ok" | "err" | "joined" | "aborted"
    permits,            \* free permits of the semaphore
    completed,          \* tasks that completed and were not yet joined, in order
    mail_result,        \* "none" | "ok" | "err": what send_report returned
    outbox              \* history: the messages whose transport.send started

svars == <<input, expected_nr_parts, pos, parts, part, indent, in_string,
           escape, split_pc, split_result, objs>>

avars == <<audit_config, audit_env, audit_pc, audit_returned>>

mvars == <<conf, opts, main_pc, tries, report, dur, exit_code, mail_sent, attempts,
           produced, last_env, sleeps, outcome, dispatched, chan>>

rvars == <<rep, rep_pc, rendered>>

dvars == <<mail_conf, mail_report, mail_pc, mail_messages, tasks, permits, completed,
           mail_result, outbox>>

vars == <<svars, avars, mvars, rvars, dvars>>

----------------------------------------------------------------------------
(* Bounds of the model.                                                    *)

\* longest input drawn from all texts over Alphabet
MaxLen == 4
\* most object literals concatenated into one well-formed input
MaxObjs == 2
\* largest capacity hint tried
MaxExpected == 1
\* most JSON documents the auditor writes to its standard output
MaxDocs == 3
\* largest cargo_audit.tries configured
MaxCfgTries == 31
\* most entries of a Report under its operations
MaxEntries == 3
\* most messages of a Report under its operations
MaxMessages == 2
\* most times a Report is created anew
MaxStamp == 1
\* most recipients of a mail dispatch
MaxRecipients == 3
\* largest configured max_concurrency
MaxConcurrency == 2

----------------------------------------------------------------------------
(* Text helpers.                                                           *)

LBRACE == "{"
RBRACE == "}"
QUOTE == "\""
BSLASH == "\\"
SPACE == " "
LETTER == "a"

Alphabet == {LBRACE, RBRACE, QUOTE, BSLASH, SPACE, LETTER}

Texts(S, n) == UNION {[1..k -> S] : k \in 0..n}

IsWhite(c) == c \in {SPACE, "\n"}

RECURSIVE TrimStart(_)
TrimStart(s) ==
    IF s # <<>> /\ IsWhite(Head(s)) THEN TrimStart(Tail(s)) ELSE s

RECURSIVE TrimEnd(_)
TrimEnd(s) ==
    IF s # <<>> /\ IsWhite(s[Len(s)]) THEN TrimEnd(SubSeq(s, 1, Len(s) - 1)) ELSE s

\* str::trim
Trim(s) == TrimEnd(TrimStart(s))

RECURSIVE Flatten(_)
Flatten(ss) == IF ss = <<>> THEN <<>> ELSE Head(ss) \o Flatten(Tail(ss))

----------------------------------------------------------------------------
(* split_json_parts, src/audit.rs:17-83.                                   *)

ErrTrailingBackslash == "Trailing backslash in JSON data."
ErrUnterminatedString == "Unterminated string in JSON data."
ErrMismatchedBraces == "Mismatched braces in JSON data"
ErrTrailingGarbage == "Trailing garbage at end of JSON data."

SplitOk(ps) == [ok |-> TRUE, parts |-> ps, err |-> ""]
SplitErr(e) == [ok |-> FALSE, parts |-> <<>>, err |-> e]

\* the locals before the loop
SplitStart ==
    [parts |-> <<>>, part |-> <<>>, indent |-> 0, in_string |-> FALSE,
     escape |-> FALSE]

\* mutant: a backslash starts an escape outside a string too
SplitBackslashAnywhere(st, c) ==
    [st EXCEPT !.escape = TRUE, !.part = Append(@, c)]

\* the arm for a backslash
SplitBackslash(st, c) ==
    IF st.in_string
    THEN [st EXCEPT !.escape = TRUE, !.part = Append(@, c)]
    ELSE [st EXCEPT !.part = Append(@, c)]

\* mutant: a closing brace inside a string closes a level too
SplitCloseInString(st, c) ==
    LET pushed == [st EXCEPT !.part = Append(@, c)]
    IN  IF st.indent - 1 <= 0
        THEN LET ptrim == Trim(pushed.part)
             IN  [pushed EXCEPT
                    !.parts = IF ptrim # <<>> THEN Append(@, ptrim) ELSE @,
                    !.part = <<>>,
                    !.indent = 0]
        ELSE [pushed EXCEPT !.indent = st.indent - 1]

\* the arm for a closing brace
SplitClose(st, c) ==
    LET pushed == [st EXCEPT !.part = Append(@, c)]
    IN  IF st.in_string
        THEN pushed
        ELSE IF st.indent - 1 <= 0
             THEN LET ptrim == Trim(pushed.part)
                  IN  [pushed EXCEPT
                         !.parts = IF ptrim # <<>> THEN Append(@, ptrim) ELSE @,
                         !.part = <<>>,
                         !.indent = 0]
             ELSE [pushed EXCEPT !.indent = st.indent - 1]

\* mutant: the escape flag is dropped without consuming the character
SplitStepNoEscape(st, c) ==
    CASE c = BSLASH -> SplitBackslash([st EXCEPT !.escape = FALSE], c)
      [] c = QUOTE -> [st EXCEPT !.part = Append(@, c), !.escape = FALSE,
                                 !.in_string = ~st.in_string]
      [] c = LBRACE -> [st EXCEPT !.part = Append(@, c), !.escape = FALSE,
                                  !.indent = IF st.in_string THEN @ ELSE @ + 1]
      [] c = RBRACE -> SplitClose([st EXCEPT !.escape = FALSE], c)
      [] OTHER -> [st EXCEPT !.part = Append(@, c), !.escape = FALSE]

\* one iteration of the loop over input.chars()
SplitStep(st, c) ==
    IF st.escape
    THEN [st EXCEPT !.part = Append(@, c), !.escape = FALSE]
    ELSE CASE c = BSLASH -> SplitBackslash(st, c)
           [] c = QUOTE -> [st EXCEPT !.part = Append(@, c),
                                      !.in_string = ~st.in_string]
           [] c = LBRACE -> [st EXCEPT !.part = Append(@, c),
                                       !.indent = IF st.in_string THEN @ ELSE @ + 1]
           [] c = RBRACE -> SplitClose(st, c)
           [] OTHER -> [st EXCEPT !.part = Append(@, c)]

\* mutant: the brace depth is checked before the string flag
SplitFinishBracesFirst(st) ==
    IF st.escape THEN SplitErr(ErrTrailingBackslash)
    ELSE IF st.indent # 0 THEN SplitErr(ErrMismatchedBraces)
    ELSE IF st.in_string THEN SplitErr(ErrUnterminatedString)
    ELSE IF Trim(st.part) # <<>> THEN SplitErr(ErrTrailingGarbage)
    ELSE SplitOk(st.parts)

\* the checks after the loop
SplitFinish(st) ==
    IF st.escape THEN SplitErr(ErrTrailingBackslash)
    ELSE IF st.in_string THEN SplitErr(ErrUnterminatedString)
    ELSE IF st.indent # 0 THEN SplitErr(ErrMismatchedBraces)
    ELSE IF Trim(st.part) # <<>> THEN SplitErr(ErrTrailingGarbage)
    ELSE SplitOk(st.parts)

\* the loop over input.chars() from index lo to hi, left to right. The range
\* is folded by halves, which composes the same steps in the same order; the
\* test on left.indent (never negative: the closing-brace arm resets it) makes
\* the left half be evaluated before the right half is entered.
RECURSIVE SplitScan(_, _, _, _)
SplitScan(st, text, lo, hi) ==
    IF lo > hi THEN st
    ELSE IF lo = hi THEN SplitStep(st, text[lo])
    ELSE LET mid == (lo + hi) \div 2
             left == SplitScan(st, text, lo, mid)
         IN  IF left.indent >= 0 THEN SplitScan(left, text, mid + 1, hi) ELSE left

\* the whole function; the capacity hint only sizes the vector
split_json_parts(text, nr) == SplitFinish(SplitScan(SplitStart, text, 1, Len(text)))

----------------------------------------------------------------------------
(* serde_json as audit_binaries uses it (src/audit.rs:191-205): from_str   *)
(* into a Value, to_string_pretty, pointer("/vulnerabilities/found").      *)
(* The documents of the model hold objects, strings, true, false and null. *)

NEWLINE == "\n"
COLON == ":"
COMMA == ","

\* the characters of the model in code point order
CharOrder ==
    <<NEWLINE, SPACE, QUOTE, COMMA, COLON, BSLASH, "a", "b", "c", "d", "e", "f",
      "g", "h", "i", "j", "k", "l", "m", "n", "o", "p", "q", "r", "s", "t", "u",
      "v", "w", "x", "y", "z", LBRACE, RBRACE>>

CharRank(c) == CHOOSE i \in 1..Len(CharOrder) : CharOrder[i] = c

\* String's Ord, on which the Map of an object is sorted
RECURSIVE KeyLess(_, _)
KeyLess(a, b) ==
    IF b = <<>> THEN FALSE
    ELSE IF a = <<>> THEN TRUE
    ELSE IF Head(a) = Head(b) THEN KeyLess(Tail(a), Tail(b))
    ELSE CharRank(Head(a)) < CharRank(Head(b))

JNull == [t |-> "null", b |-> FALSE, s |-> <<>>, members |-> <<>>]
JBool(b) == [t |-> "bool", b |-> b, s |-> <<>>, members |-> <<>>]
JString(s) == [t |-> "str", b |-> FALSE, s |-> s, members |-> <<>>]
JObject(ms) == [t |-> "obj", b |-> FALSE, s |-> <<>>, members |-> ms]

ParseFail == [ok |-> FALSE, v |-> JNull, i |-> 0]
Parsed(v, i) == [ok |-> TRUE, v |-> v, i |-> i]

\* Map::insert: a key met again replaces its value; keys stay sorted
RECURSIVE MapInsert(_, _, _)
MapInsert(ms, k, v) ==
    IF ms = <<>> THEN <<[k |-> k, v |-> v]>>
    ELSE IF Head(ms).k = k THEN <<[k |-> k, v |-> v]>> \o Tail(ms)
    ELSE IF KeyLess(k, Head(ms).k) THEN <<[k |-> k, v |-> v]>> \o ms
    ELSE <<Head(ms)>> \o MapInsert(Tail(ms), k, v)

RECURSIVE SkipWhite(_, _)
SkipWhite(t, i) ==
    IF i <= Len(t) /\ t[i] \in {SPACE, NEWLINE} THEN SkipWhite(t, i + 1) ELSE i

StartsWith(t, i, w) ==
    /\ i + Len(w) - 1 <= Len(t)
    /\ SubSeq(t, i, i + Len(w) - 1) = w

LitTrue == <<"t", "r", "u", "e">>
LitFalse == <<"f", "a", "l", "s", "e">>
LitNull == <<"n", "u", "l", "l">>

\* the character an escape sequence stands for
Unescape(c) == IF c = "n" THEN NEWLINE ELSE c

\* the body of a string from index i (after the opening quote)
RECURSIVE ParseStringBody(_, _, _)
ParseStringBody(t, i, acc) ==
    IF i > Len(t) THEN ParseFail
    ELSE IF t[i] = QUOTE THEN Parsed(JString(acc), i + 1)
    ELSE IF t[i] = NEWLINE THEN ParseFail
    ELSE IF t[i] = BSLASH
         THEN IF i + 1 <= Len(t) /\ t[i + 1] \in {QUOTE, BSLASH, "n"}
              THEN ParseStringBody(t, i + 2, Append(acc, Unescape(t[i + 1])))
              ELSE ParseFail
    ELSE ParseStringBody(t, i + 1, Append(acc, t[i]))

RECURSIVE ParseValue(_, _)
RECURSIVE ParseMembers(_, _, _)

\* key : value , ... } with i at the first key
ParseMembers(t, i, ms) ==
    LET ki == SkipWhite(t, i)
    IN  IF ki > Len(t) \/ t[ki] # QUOTE THEN ParseFail
        ELSE LET key == ParseStringBody(t, ki + 1, <<>>)
             IN  IF ~key.ok THEN ParseFail
                 ELSE LET ci == SkipWhite(t, key.i)
                      IN  IF ci > Len(t) \/ t[ci] # COLON THEN ParseFail
                          ELSE LET val == ParseValue(t, ci + 1)
                               IN  IF ~val.ok THEN ParseFail
                                   ELSE LET ni == SkipWhite(t, val.i)
                                            nms == MapInsert(ms, key.v.s, val.v)
                                        IN  IF ni > Len(t) THEN ParseFail
                                            ELSE IF t[ni] = RBRACE
                                                 THEN Parsed(JObject(nms), ni + 1)
                                            ELSE IF t[ni] = COMMA
                                                 THEN ParseMembers(t, ni + 1, nms)
                                            ELSE ParseFail

ParseValue(t, i) ==
    LET vi == SkipWhite(t, i)
    IN  IF vi > Len(t) THEN ParseFail
        ELSE IF t[vi] = QUOTE THEN ParseStringBody(t, vi + 1, <<>>)
        ELSE IF t[vi] = LBRACE
             THEN LET oi == SkipWhite(t, vi + 1)
                  IN  IF oi <= Len(t) /\ t[oi] = RBRACE
                      THEN Parsed(JObject(<<>>), oi + 1)
                      ELSE ParseMembers(t, vi + 1, <<>>)
        ELSE IF StartsWith(t, vi, LitTrue) THEN Parsed(JBool(TRUE), vi + 4)
        ELSE IF StartsWith(t, vi, LitFalse) THEN Parsed(JBool(FALSE), vi + 5)
        ELSE IF StartsWith(t, vi, LitNull) THEN Parsed(JNull, vi + 4)
        ELSE ParseFail

\* serde_json::from_str: one value, then nothing but whitespace
json_from_str(t) ==
    LET val == ParseValue(t, 1)
    IN  IF val.ok /\ SkipWhite(t, val.i) > Len(t) THEN val ELSE ParseFail

RECURSIVE Spaces(_)
Spaces(n) == IF n = 0 THEN <<>> ELSE <<SPACE>> \o Spaces(n - 1)

RECURSIVE EscapeText(_)
EscapeText(s) ==
    IF s = <<>> THEN <<>>
    ELSE (CASE Head(s) = QUOTE -> <<BSLASH, QUOTE>>
            [] Head(s) = BSLASH -> <<BSLASH, BSLASH>>
            [] Head(s) = NEWLINE -> <<BSLASH, "n">>
            [] OTHER -> <<Head(s)>>) \o EscapeText(Tail(s))

RECURSIVE Pretty(_, _)
RECURSIVE PrettyMembers(_, _)

PrettyMembers(ms, level) ==
    IF ms = <<>> THEN <<>>
    ELSE Spaces(2 * level) \o <<QUOTE>> \o EscapeText(Head(ms).k) \o <<QUOTE, COLON, SPACE>>
         \o Pretty(Head(ms).v, level)
         \o (IF Tail(ms) = <<>> THEN <<>> ELSE <<COMMA>>) \o <<NEWLINE>>
         \o PrettyMembers(Tail(ms), level)

Pretty(v, level) ==
    CASE v.t = "null" -> LitNull
      [] v.t = "bool" -> IF v.b THEN LitTrue ELSE LitFalse
      [] v.t = "str" -> <<QUOTE>> \o EscapeText(v.s) \o <<QUOTE>>
      [] OTHER ->
            IF v.members = <<>> THEN <<LBRACE, RBRACE>>
            ELSE <<LBRACE, NEWLINE>> \o PrettyMembers(v.members, level + 1)
                 \o Spaces(2 * level) \o <<RBRACE>>

\* serde_json::to_string_pretty
json_to_string_pretty(v) == Pretty(v, 0)

KeyVulnerabilities ==
    <<"v", "u", "l", "n", "e", "r", "a", "b", "i", "l", "i", "t", "i", "e", "s">>
KeyFound == <<"f", "o", "u", "n", "d">>

\* Value::get on an object
HasKey(v, k) == v.t = "obj" /\ \E j \in 1..Len(v.members) : v.members[j].k = k
GetKey(v, k) == v.members[CHOOSE j \in 1..Len(v.members) : v.members[j].k = k].v

\* .pointer("/vulnerabilities/found").and_then(|v| v.as_bool()).unwrap_or(false)
VulnerabilitiesFound(v) ==
    /\ HasKey(v, KeyVulnerabilities)
    /\ HasKey(GetKey(v, KeyVulnerabilities), KeyFound)
    /\ GetKey(GetKey(v, KeyVulnerabilities), KeyFound).t = "bool"
    /\ GetKey(GetKey(v, KeyVulnerabilities), KeyFound).b

----------------------------------------------------------------------------
(* Report, src/report.rs:12-71.  A message is the format string that made  *)
(* it together with the values formatted into it.                          *)

ReportEntry(path, vulnerable, json, json_pretty) ==
    [path |-> path, vulnerable |-> vulnerable, json |-> json,
     json_pretty |-> json_pretty]

Msg(fmt, detail, text, n, m) ==
    [fmt |-> fmt, detail |-> detail, text |-> text, n |-> n, m |-> m]

\* Report::new; now is Utc::now()
Report_new(now) ==
    [stamp |-> now, entries |-> <<>>, messages |-> <<>>, failed |-> FALSE,
     vulnerable |-> FALSE]

\* mutant: the flag is overwritten by the last entry's
Report_addOverwrite(self, entry) ==
    [self EXCEPT !.vulnerable = entry.vulnerable,
                 !.entries = Append(@, entry)]

\* Report::add
Report_add(self, entry) ==
    [self EXCEPT !.vulnerable = @ \/ entry.vulnerable,
                 !.entries = Append(@, entry)]

\* Report::add_message
Report_add_message(self, msg) == [self EXCEPT !.messages = Append(@, msg)]

\* mutant: the failed clone drops the entries
Report_failDiscardEntries(self, message) ==
    Report_add_message([self EXCEPT !.failed = TRUE, !.entries = <<>>], message)

\* Report::fail: a clone of self, marked failed, with the message added
Report_fail(self, message) ==
    Report_add_message([self EXCEPT !.failed = TRUE], message)

\* impl Display for Report (src/report.rs:73-106).  What is written is the
\* sequence of the writeln! calls, each the format string with its arguments.
FmtHeaderFailed == "[{date}] Audit FAILED."
FmtHeaderResults == "[{date}] Audit results:"
FmtEntryLine == "  {}: {}"
FmtEmptyLine == ""
FmtMessage == "{msg}"
FmtDetail == "\n\n{}:\n{}"

Writeln(fmt, args) == [fmt |-> fmt, args |-> args]

\* self.stamp.format("%+")
Date(self) == self.stamp

EntryLine(entry) ==
    Writeln(FmtEntryLine, <<entry.path, IF entry.vulnerable THEN "VULNERABLE" ELSE "Ok">>)

IsVulnerable(entry) == entry.vulnerable

DetailBlock(entry) == Writeln(FmtDetail, <<entry.path, entry.json_pretty>>)

\* the summary: if self.failed() { ... } else { ... }
DisplaySummary(self) ==
    IF self.failed
    THEN <<Writeln(FmtHeaderFailed, <<Date(self)>>)>>
    ELSE <<Writeln(FmtHeaderResults, <<Date(self)>>)>>
         \o [i \in 1..Len(self.entries) |-> EntryLine(self.entries[i])]
         \o <<Writeln(FmtEmptyLine, <<>>)>>

\* for msg in self.messages()
DisplayMessages(self) ==
    [i \in 1..Len(self.messages) |-> Writeln(FmtMessage, <<self.messages[i]>>)]

\* for entry in self.entries().iter().filter(|e| e.vulnerable)
DisplayDetailBlocks(self) ==
    LET found == SelectSeq(self.entries, IsVulnerable)
    IN  [i \in 1..Len(found) |-> DetailBlock(found[i])]

\* mutant: the details are written for a failed report too
DisplayDetailsAlways(self) == DisplayDetailBlocks(self)

\* the details: if !self.failed() { ... }
DisplayDetails(self) == IF ~self.failed THEN DisplayDetailBlocks(self) ELSE <<>>

Display(self) == DisplaySummary(self) \o DisplayMessages(self) \o DisplayDetails(self)

----------------------------------------------------------------------------
(* audit_binaries, src/audit.rs:85-224.                                    *)
(* env is what the attempt finds outside the process:                      *)
(*   fs[p]        what tokio::fs::metadata / read_dir give for path p:     *)
(*                [kind, entries], entries being the results of            *)
(*                next_entry / metadata in directory order                 *)
(*   spawn_ok     cmd.output() succeeded                                   *)
(*   stdout_utf8, stdout, code, stderr_utf8, stderr: the Output            *)

FmtNotExist == "WARNING: '{}' does not exist; skipped."
FmtStatFailed == "WARNING: Failed to stat path '{}': {}; skipped."
FmtReadDir == "Error reading directory '{}': {}"
FmtReadDirEntry == "Error reading directory entry in '{}': {e}"
FmtStatDirEntry == "Error stating directory entry in '{}': {e}"
FmtNoPaths == "WARNING: No existing paths to audit; cargo-audit skipped."
FmtExec == "Error executing cargo-audit ({}): {}"
FmtStdoutUtf8 == "Parse cargo-audit stdout as UTF-8: {}"
FmtExitCode == "cargo-audit exited with code {}"
FmtExitSignal == "cargo-audit exited due to signal"
FmtSplit == "Split cargo-audit JSON output: {}"
FmtCount == "cargo-audit returned {} JSON object(s) but {} binary(ies) were audited"
FmtParseJson == "Parse cargo-audit JSON output: {}"
FmtStderrUtf8 == "Parse cargo-audit stderr as UTF-8: {}"
FmtStderr == "cargo-audit stderr:\n{}"

Env(fs, spawn_ok, stdout_utf8, stdout, code, stderr_utf8, stderr) ==
    [fs |-> fs, spawn_ok |-> spawn_ok, stdout_utf8 |-> stdout_utf8, stdout |-> stdout,
     code |-> code, stderr_utf8 |-> stderr_utf8, stderr |-> stderr]

\* no attempt yet
NoEnv == Env(<<>>, FALSE, TRUE, <<>>, "1", TRUE, <<>>)

\* spawned is history: whether the call reached cmd.output()
AuditOk(rpt) == [ok |-> TRUE, report |-> rpt, spawned |-> FALSE]
AuditErr(rpt) == [ok |-> FALSE, report |-> rpt, spawned |-> FALSE]
Spawned(ret) == [ret EXCEPT !.spawned = TRUE]

\* the state of the enumeration: go is FALSE once a `?` has returned
EnumState(go, rpt, bins) == [go |-> go, report |-> rpt, bins |-> bins]

\* while let Some(e) = dir.next_entry() ... over the entries from index i
RECURSIVE EnumerateDir(_, _, _, _)
EnumerateDir(st, p, entries, i) ==
    IF i > Len(entries) THEN st
    ELSE LET e == entries[i]
         IN  IF e.res = "next_entry_err"
             THEN EnumState(FALSE, Report_fail(st.report, Msg(FmtReadDirEntry, p, <<>>, 0, 0)), st.bins)
             ELSE IF e.res = "metadata_err"
             THEN EnumState(FALSE, Report_fail(st.report, Msg(FmtStatDirEntry, p, <<>>, 0, 0)), st.bins)
             ELSE IF e.res = "executable"
             THEN EnumerateDir([st EXCEPT !.bins = Append(@, e.path)], p, entries, i + 1)
             ELSE EnumerateDir(st, p, entries, i + 1)

\* the body of `for p in paths`
EnumeratePath(st, p, node) ==
    CASE node.kind = "not_found" ->
            [st EXCEPT !.report = Report_add_message(@, Msg(FmtNotExist, p, <<>>, 0, 0))]
      [] node.kind = "stat_err" ->
            [st EXCEPT !.report = Report_add_message(@, Msg(FmtStatFailed, p, <<>>, 0, 0))]
      [] node.kind = "dir_unreadable" ->
            EnumState(FALSE, Report_fail(st.report, Msg(FmtReadDir, p, <<>>, 0, 0)), st.bins)
      [] node.kind = "dir" -> EnumerateDir(st, p, node.entries, 1)
      [] OTHER -> [st EXCEPT !.bins = Append(@, p)]

\* for p in paths { ... } from index i
RECURSIVE Enumerate(_, _, _, _)
Enumerate(st, paths, fs, i) ==
    IF i > Len(paths) \/ ~st.go THEN st
    ELSE Enumerate(EnumeratePath(st, paths[i], fs[paths[i]]), paths, fs, i + 1)

\* mutant: the parts are paired with the binaries from the last part backwards
RECURSIVE DecodePartsReversed(_, _, _, _)
DecodePartsReversed(rpt, bins, json_parts, i) ==
    IF i > Len(bins) \/ i > Len(json_parts) THEN AuditOk(rpt)
    ELSE LET json_part == json_parts[Len(json_parts) + 1 - i]
             audit_result == json_from_str(Trim(json_part))
         IN  IF ~audit_result.ok
             THEN AuditErr(Report_fail(rpt, Msg(FmtParseJson, "", <<>>, 0, 0)))
             ELSE DecodePartsReversed(
                    Report_add(rpt,
                        ReportEntry(bins[i], VulnerabilitiesFound(audit_result.v),
                                    json_part, json_to_string_pretty(audit_result.v))),
                    bins, json_parts, i + 1)

\* for (path, json_part) in bins.zip(parts) { ... } from index i
RECURSIVE DecodeParts(_, _, _, _)
DecodeParts(rpt, bins, json_parts, i) ==
    IF i > Len(bins) \/ i > Len(json_parts) THEN AuditOk(rpt)
    ELSE LET json_part == json_parts[i]
             audit_result == json_from_str(Trim(json_part))
         IN  IF ~audit_result.ok
             THEN AuditErr(Report_fail(rpt, Msg(FmtParseJson, "", <<>>, 0, 0)))
             ELSE DecodeParts(
                    Report_add(rpt,
                        ReportEntry(bins[i], VulnerabilitiesFound(audit_result.v),
                                    json_part, json_to_string_pretty(audit_result.v))),
                    bins, json_parts, i + 1)

\* mutant: stderr that is no valid text is noted in the Report and the
\* attempt still returns Ok
CollectStderrReturnsOk(rpt, env) ==
    IF ~env.stderr_utf8
    THEN AuditOk(Report_fail(rpt, Msg(FmtStderrUtf8, "", <<>>, 0, 0)))
    ELSE IF Trim(env.stderr) # <<>>
    THEN AuditOk(Report_add_message(rpt, Msg(FmtStderr, "", env.stderr, 0, 0)))
    ELSE AuditOk(rpt)

\* the text of out.stderr and the return
CollectStderr(rpt, env) ==
    IF ~env.stderr_utf8
    THEN AuditErr(Report_fail(rpt, Msg(FmtStderrUtf8, "", <<>>, 0, 0)))
    ELSE IF Trim(env.stderr) # <<>>
    THEN AuditOk(Report_add_message(rpt, Msg(FmtStderr, "", env.stderr, 0, 0)))
    ELSE AuditOk(rpt)

\* if config.cargo_audit().debug() { ... exit code ... }
DebugExit(rpt, config, env) ==
    IF ~config.debug THEN rpt
    ELSE IF env.code = "signal"
    THEN Report_add_message(rpt, Msg(FmtExitSignal, "", <<>>, 0, 0))
    ELSE Report_add_message(rpt, Msg(FmtExitCode, env.code, <<>>, 0, 0))

\* mutant: the counts are compared only after the zipped parts are decoded
RunCargoAuditCountLate(rpt0, config, bins, env) ==
    Spawned(
        IF ~env.spawn_ok
        THEN AuditErr(Report_fail(rpt0, Msg(FmtExec, "", <<>>, 0, 0)))
        ELSE IF ~env.stdout_utf8
        THEN AuditErr(Report_fail(rpt0, Msg(FmtStdoutUtf8, "", <<>>, 0, 0)))
        ELSE LET rpt == DebugExit(rpt0, config, env)
                 split == split_json_parts(env.stdout, Len(bins))
             IN  IF ~split.ok
                 THEN AuditErr(Report_fail(rpt, Msg(FmtSplit, split.err, <<>>, 0, 0)))
                 ELSE LET decoded == DecodeParts(rpt, bins, split.parts, 1)
                      IN  IF ~decoded.ok THEN decoded
                          ELSE IF Len(split.parts) # Len(bins)
                          THEN AuditErr(Report_fail(decoded.report,
                                   Msg(FmtCount, "", <<>>, Len(split.parts), Len(bins))))
                          ELSE CollectStderr(decoded.report, env))

\* the else branch of `if bins.is_empty()`: execute cargo-audit and parse
RunCargoAudit(rpt0, config, bins, env) ==
    Spawned(
        IF ~env.spawn_ok
        THEN AuditErr(Report_fail(rpt0, Msg(FmtExec, "", <<>>, 0, 0)))
        ELSE IF ~env.stdout_utf8
        THEN AuditErr(Report_fail(rpt0, Msg(FmtStdoutUtf8, "", <<>>, 0, 0)))
        ELSE LET rpt == DebugExit(rpt0, config, env)
                 split == split_json_parts(env.stdout, Len(bins))
             IN  IF ~split.ok
                 THEN AuditErr(Report_fail(rpt, Msg(FmtSplit, split.err, <<>>, 0, 0)))
                 ELSE IF Len(split.parts) # Len(bins)
                 THEN AuditErr(Report_fail(rpt,
                          Msg(FmtCount, "", <<>>, Len(split.parts), Len(bins))))
                 ELSE LET decoded == DecodeParts(rpt, bins, split.parts, 1)
                      IN  IF ~decoded.ok THEN decoded
                          ELSE CollectStderr(decoded.report, env))

\* mutant: the report is created once, before the loop, and reused
FreshReportReused(now) == IF attempts = 0 THEN Report_new(now) ELSE report

\* let mut report = Report::new(), at the start of every call
FreshReport(now) == Report_new(now)

\* mutant: an empty list of binaries fails the attempt
audit_binariesEmptyFails(config, paths, env, now) ==
    LET st == Enumerate(EnumState(TRUE, FreshReport(now), <<>>), paths, env.fs, 1)
    IN  IF ~st.go THEN AuditErr(st.report)
        ELSE IF st.bins = <<>>
        THEN AuditErr(Report_fail(st.report, Msg(FmtNoPaths, "", <<>>, 0, 0)))
        ELSE RunCargoAudit(st.report, config, st.bins, env)

audit_binaries(config, paths, env, now) ==
    LET st == Enumerate(EnumState(TRUE, FreshReport(now), <<>>), paths, env.fs, 1)
    IN  IF ~st.go THEN AuditErr(st.report)
        ELSE IF st.bins = <<>>
        THEN AuditOk(Report_add_message(st.report, Msg(FmtNoPaths, "", <<>>, 0, 0)))
        ELSE RunCargoAudit(st.report, config, st.bins, env)

\* the enumeration of an environment: whether it completed, and the binaries
EnumOf(paths, env) == Enumerate(EnumState(TRUE, Report_new(0), <<>>), paths, env.fs, 1)
BinsOf(paths, env) == EnumOf(paths, env).bins

----------------------------------------------------------------------------
(* Config, src/config.rs.  An absent Option is "none"; tries absent is 0   *)
(* (the field is a NonZeroUsize).                                          *)

DefaultTries == 5
DefaultMaxConcurrency == 1
HardCeiling == 30
MaxBackoff == 120
U64Bits == 64

Min(a, b) == IF a <= b THEN a ELSE b

\* ConfigCargoAudit::tries
CargoAuditTries(config) == IF config.tries = 0 THEN DefaultTries ELSE config.tries

\* the guards of report::file::write_report and report::command::run
FileEnabled(config) == config.report_file = "enabled"
CommandEnabled(config) == config.report_command = "enabled"

\* mutant: no default stands in for an absent max_concurrency
MaxConcurrencyOfNoDefault(config) == config.mail_max_concurrency

\* ConfigReportMail::max_concurrency
MaxConcurrencyOf(config) ==
    IF config.mail_max_concurrency = 0 THEN DefaultMaxConcurrency
    ELSE config.mail_max_concurrency

\* the guard of mail::send_report (src/mail.rs:12-15)
MailEnabled(config) == ~config.mail_disabled

----------------------------------------------------------------------------
(* mail::send_report, src/mail.rs:11-59, the function async_main calls.    *)
(* fail_at is the index of the first message whose transport.send fails,   *)
(* 0 when none does.                                                       *)

\* mutant: the finding is looked at before the failure
SubjectPrefixVulnerableFirst(r) ==
    IF r.vulnerable THEN "[VULNERABILITIES FOUND] "
    ELSE IF r.failed THEN "[AUDIT FAILED] "
    ELSE ""

SubjectPrefix(r) ==
    IF r.failed THEN "[AUDIT FAILED] "
    ELSE IF r.vulnerable THEN "[VULNERABILITIES FOUND] "
    ELSE ""

\* format!("{}{}", prefix, subject) and format!("{report}")
MailMessage(config, to, r) ==
    [to |-> to, subject |-> <<SubjectPrefix(r), config.mail_subject>>, body |-> Display(r)]

MailResult(ok, sent) == [ok |-> ok, sent |-> sent]

\* an address that Mailbox::parse accepts
AddressOk(a) == a # "not an address"

\* mutant: each message is built right before it is sent, so the recipients
\* ahead of an address that does not parse get their mail
mail_send_reportBuildOnSend(config, r, fail_at) ==
    IF config.mail_disabled THEN MailResult(TRUE, <<>>)
    ELSE LET to == config.mail_to
             n == Len(to)
             bad == IF ~config.mail_from_ok THEN 1
                    ELSE IF \E i \in 1..n : ~AddressOk(to[i])
                         THEN CHOOSE i \in 1..n :
                                /\ ~AddressOk(to[i])
                                /\ \A j \in 1..(i - 1) : AddressOk(to[j])
                         ELSE n + 1
         IN  IF ~config.mail_relay_ok THEN MailResult(FALSE, <<>>)
             ELSE IF fail_at \in 1..(bad - 1) /\ fail_at <= n
                  THEN MailResult(FALSE, [i \in 1..fail_at |-> MailMessage(config, to[i], r)])
                  ELSE IF bad <= n
                       THEN MailResult(FALSE, [i \in 1..(bad - 1) |-> MailMessage(config, to[i], r)])
                       ELSE MailResult(TRUE, [i \in 1..n |-> MailMessage(config, to[i], r)])

mail_send_report(config, r, fail_at) ==
    IF config.mail_disabled THEN MailResult(TRUE, <<>>)
    ELSE LET to == config.mail_to
             n == Len(to)
         IN  IF n > 0 /\ ~config.mail_from_ok THEN MailResult(FALSE, <<>>)
             ELSE IF \E i \in 1..n : ~AddressOk(to[i]) THEN MailResult(FALSE, <<>>)
             ELSE IF ~config.mail_relay_ok THEN MailResult(FALSE, <<>>)
             ELSE IF fail_at \in 1..n
                  THEN MailResult(FALSE, [i \in 1..fail_at |-> MailMessage(config, to[i], r)])
                  ELSE MailResult(TRUE, [i \in 1..n |-> MailMessage(config, to[i], r)])

----------------------------------------------------------------------------
(* The retry loop of async_main, src/main.rs:59-84.                        *)

\* conf.cargo_audit.tries().min(30)
TriesLimit(config) == Min(CargoAuditTries(config), HardCeiling)

\* mutant: the duration is not capped
BackoffUncapped(t) == (2 ^ (t - 1)) * 2

\* ((1_u64 << (tries - 1)) * 2).min(120)
Backoff(t) == Min((2 ^ (t - 1)) * 2, MaxBackoff)

\* mutant: the ceiling is not applied
GiveUpNoCeiling(t, config) == t >= CargoAuditTries(config)

\* if tries >= conf.cargo_audit.tries().min(30) { break report; }
GiveUp(t, config) == t >= TriesLimit(config)

\* mutant: the test of report.failed() is inverted
BreaksLoopInverted(ret) == ret.ok /\ ret.report.failed

\* Ok(report) if !report.failed() => break report
BreaksLoop(ret) == ret.ok /\ ~ret.report.failed

Channels == {"mail", "file", "command"}

NoTries == 0

\* max_concurrency: Option<NonZeroUsize> absent
NoMaxConcurrency == 0

Conf(t, debug, disabled, to, from_ok, relay_ok, report_file, report_command) ==
    [tries |-> t, debug |-> debug, mail_disabled |-> disabled,
     mail_to |-> to, mail_from_ok |-> from_ok,
     mail_relay_ok |-> relay_ok, report_file |-> report_file,
     report_command |-> report_command,
     mail_subject |-> "audit report", mail_max_concurrency |-> NoMaxConcurrency]

NoChannel == [c \in Channels |-> "not_attempted"]

MainIdle ==
    /\ conf = Conf(0, FALSE, TRUE, <<>>, TRUE, TRUE, "none", "none")
    /\ opts = [no_systemd |-> TRUE]
    /\ main_pc = "idle"
    /\ tries = 0
    /\ report = Report_new(0)
    /\ dur = 0
    /\ exit_code = -1
    /\ mail_sent = <<>>
    /\ attempts = 0
    /\ produced = AuditOk(Report_new(0))
    /\ last_env = NoEnv
    /\ sleeps = 0
    /\ outcome = "none"
    /\ dispatched = Report_new(0)
    /\ chan = NoChannel

ReportIdle ==
    /\ rep = Report_new(0)
    /\ rep_pc = "idle"
    /\ rendered = <<>>

MailIdle ==
    /\ mail_conf = Conf(0, FALSE, TRUE, <<>>, TRUE, TRUE, "none", "none")
    /\ mail_report = Report_new(0)
    /\ mail_pc = "idle"
    /\ mail_messages = <<>>
    /\ tasks = <<>>
    /\ permits = 0
    /\ completed = <<>>
    /\ mail_result = "none"
    /\ outbox = <<>>

----------------------------------------------------------------------------
(* The environments of one attempt.                                        *)

\* config.watch().paths()
WatchPaths == <<"/usr/bin/tool", "/opt/bin">>

NoEntries == <<>>
DirEntry(path, res) == [path |-> path, res |-> res]

\* what a directory listing can give, in directory order
DirListings ==
    { NoEntries,
      <<DirEntry("/opt/bin/x", "executable")>>,
      <<DirEntry("/opt/bin/x", "executable"), DirEntry("/opt/bin/y", "not_executable"),
        DirEntry("/opt/bin/z", "subdir")>>,
      <<DirEntry("/opt/bin/x", "executable"), DirEntry("/opt/bin/w", "executable")>>,
      <<DirEntry("/opt/bin/x", "executable"), DirEntry("/opt/bin/y", "metadata_err")>>,
      <<DirEntry("/opt/bin/x", "next_entry_err")>> }

FsNode(kind, entries) == [kind |-> kind, entries |-> entries]

FileNodes == {FsNode(k, NoEntries) : k \in {"not_found", "stat_err", "file"}}
DirNodes ==
    {FsNode(k, NoEntries) : k \in {"not_found", "dir_unreadable"}}
    \cup {FsNode("dir", es) : es \in DirListings}

\* the node at each watched path
Fs(file_kind, dir_node) ==
    [p \in {WatchPaths[1], WatchPaths[2]} |->
        IF p = WatchPaths[1] THEN FsNode(file_kind, NoEntries) ELSE dir_node]

FsStates ==
    {[p \in {WatchPaths[1], WatchPaths[2]} |-> IF p = WatchPaths[1] THEN f ELSE d] :
        f \in FileNodes, d \in DirNodes}

\* the documents the auditor writes: {} , a finding, and text that is no JSON
DocEmpty == <<LBRACE, RBRACE>>
DocVulnerable ==
    <<LBRACE, QUOTE>> \o KeyVulnerabilities \o <<QUOTE, COLON, LBRACE, QUOTE>>
    \o KeyFound \o <<QUOTE, COLON>> \o LitTrue \o <<RBRACE, RBRACE>>
DocNotJson == <<LBRACE, "a", RBRACE>>

Docs == {DocEmpty, DocVulnerable, DocNotJson}

\* each document followed by a newline
RECURSIVE Lines(_)
Lines(ds) == IF ds = <<>> THEN <<>> ELSE Head(ds) \o <<NEWLINE>> \o Lines(Tail(ds))

StdoutTexts ==
    {Lines(ds) : ds \in Texts(Docs, MaxDocs)}
    \cup { <<LBRACE>>, <<LBRACE, RBRACE, SPACE, "a">>, <<LBRACE, QUOTE, RBRACE>> }

StderrTexts == { <<>>, <<NEWLINE>>, <<"e", "r", "r", NEWLINE>> }

\* a failed spawn gives no Output; stdout that is no UTF-8 gives no text
EnvsOver(fss, stdouts, stderrs) ==
    {Env(fs, FALSE, TRUE, <<>>, "1", TRUE, <<>>) : fs \in fss}
    \cup {Env(fs, TRUE, FALSE, <<>>, "1", TRUE, <<>>) : fs \in fss}
    \cup {Env(fs, TRUE, TRUE, out, code, TRUE, err) :
             fs \in fss, out \in stdouts, code \in {"1", "signal"}, err \in stderrs}
    \cup {Env(fs, TRUE, TRUE, out, "1", FALSE, <<>>) : fs \in fss, out \in stdouts}

\* file systems giving one, two and three binaries
CoreFsStates ==
    { Fs("file", FsNode("not_found", NoEntries)),
      Fs("file", FsNode("dir", <<DirEntry("/opt/bin/x", "executable")>>)),
      Fs("file", FsNode("dir", <<DirEntry("/opt/bin/x", "executable"),
                                 DirEntry("/opt/bin/w", "executable")>>)) }

CoreStdoutTexts ==
    { <<>>, Lines(<<DocEmpty>>), Lines(<<DocVulnerable, DocEmpty>>), <<LBRACE>> }

\* every file system with the core outputs, and the core file systems with
\* every output
AuditEnvs ==
    EnvsOver(FsStates, CoreStdoutTexts, StderrTexts)
    \cup EnvsOver(CoreFsStates, StdoutTexts, StderrTexts)

AuditConfigs == [debug : BOOLEAN]

AuditIdle ==
    /\ audit_config = [debug |-> FALSE]
    /\ audit_env = NoEnv
    /\ audit_pc = "idle"
    /\ audit_returned = AuditOk(Report_new(0))

SplitIdle ==
    /\ input = <<>>
    /\ objs = [wf |-> FALSE, objs |-> <<>>]
    /\ expected_nr_parts = 0
    /\ pos = 1
    /\ parts = SplitStart.parts
    /\ part = SplitStart.part
    /\ indent = SplitStart.indent
    /\ in_string = SplitStart.in_string
    /\ escape = SplitStart.escape
    /\ split_pc = "idle"
    /\ split_result = SplitOk(<<>>)

AuditInit ==
    /\ audit_config \in AuditConfigs
    /\ audit_env \in AuditEnvs
    /\ audit_pc = "call"
    /\ audit_returned = AuditOk(Report_new(0))
    /\ SplitIdle
    /\ MainIdle
    /\ ReportIdle
    /\ MailIdle

\* audit_binaries(&conf, &conf.watch.paths).await
AuditCall ==
    /\ audit_pc = "call"
    /\ audit_returned' = audit_binaries(audit_config, WatchPaths, audit_env, 1)
    /\ audit_pc' = "done"
    /\ UNCHANGED <<audit_config, audit_env>>
    /\ UNCHANGED <<svars, mvars, rvars, dvars>>

AuditNext == AuditCall

SpecAudit == AuditInit /\ [][AuditNext]_vars

----------------------------------------------------------------------------
(* The process: main and async_main, src/main.rs:51-115.                   *)

\* the report sections of the configurations tried
ReportSections ==
    { Conf(0, FALSE, TRUE, <<"a@example.com">>, TRUE, TRUE, "none", "none"),
      Conf(0, FALSE, FALSE, <<>>, FALSE, TRUE, "none", "none"),
      Conf(0, FALSE, FALSE, <<"a@example.com">>, TRUE, TRUE, "none", "none"),
      Conf(0, FALSE, FALSE, <<"a@example.com", "b@example.com">>, TRUE, TRUE, "disabled", "none"),
      Conf(0, FALSE, FALSE, <<"a@example.com", "not an address">>, TRUE, TRUE, "none", "none"),
      Conf(0, FALSE, FALSE, <<"a@example.com">>, FALSE, TRUE, "none", "disabled"),
      Conf(0, FALSE, FALSE, <<"a@example.com">>, TRUE, FALSE, "none", "none"),
      Conf(0, FALSE, FALSE, <<"a@example.com">>, TRUE, TRUE, "enabled", "none"),
      Conf(0, FALSE, TRUE, <<>>, TRUE, TRUE, "none", "enabled"),
      Conf(0, FALSE, FALSE, <<>>, TRUE, FALSE, "none", "none") }

\* cargo_audit.tries and cargo_audit.debug of the configurations tried
TriesAndDebug ==
    { <<NoTries, FALSE>>, <<1, TRUE>>, <<2, FALSE>>, <<2, TRUE>>, <<MaxCfgTries, FALSE>> }

Configs ==
    {[[c EXCEPT !.tries = td[1]] EXCEPT !.debug = td[2]] :
        c \in ReportSections, td \in TriesAndDebug}

NoneInDir ==
    FsNode("dir", <<DirEntry("/opt/bin/y", "not_executable"), DirEntry("/opt/bin/z", "subdir")>>)
OneInDir == FsNode("dir", <<DirEntry("/opt/bin/x", "executable")>>)
ErrText == <<"e", "r", "r", NEWLINE>>

\* the environments an attempt of the process can meet
ProcessEnvs ==
    { \* nothing to audit
      Env(Fs("not_found", FsNode("not_found", NoEntries)), TRUE, TRUE, <<>>, "1", TRUE, <<>>),
      \* nothing to audit: a path that cannot be examined, a directory
      \* without executable files
      Env(Fs("stat_err", NoneInDir), TRUE, TRUE, <<>>, "1", TRUE, <<>>),
      \* one binary, no finding
      Env(Fs("file", FsNode("not_found", NoEntries)), TRUE, TRUE, Lines(<<DocEmpty>>), "1", TRUE, <<>>),
      \* two binaries, a finding, text on stderr
      Env(Fs("file", OneInDir), TRUE, TRUE, Lines(<<DocVulnerable, DocEmpty>>), "1", TRUE, ErrText),
      \* the auditor cannot be executed
      Env(Fs("file", FsNode("not_found", NoEntries)), FALSE, TRUE, <<>>, "1", TRUE, <<>>),
      \* two binaries, one document
      Env(Fs("file", OneInDir), TRUE, TRUE, Lines(<<DocEmpty>>), "signal", TRUE, <<>>),
      \* two binaries, the second document is no JSON
      Env(Fs("file", OneInDir), TRUE, TRUE, Lines(<<DocVulnerable, DocNotJson>>), "1", TRUE, <<>>),
      \* a directory that cannot be read
      Env(Fs("stat_err", FsNode("dir_unreadable", NoEntries)), TRUE, TRUE, <<>>, "1", TRUE, <<>>),
      \* output that does not split
      Env(Fs("file", FsNode("not_found", NoEntries)), TRUE, TRUE, <<LBRACE>>, "1", TRUE, ErrText),
      \* stderr that is no text
      Env(Fs("file", FsNode("not_found", NoEntries)), TRUE, TRUE, Lines(<<DocVulnerable>>), "1", FALSE, <<>>) }

MainInit ==
    /\ conf \in Configs
    /\ opts \in [no_systemd : BOOLEAN]
    /\ main_pc = "load"
    /\ tries = 0
    /\ report = Report_new(0)
    /\ dur = 0
    /\ exit_code = -1
    /\ mail_sent = <<>>
    /\ attempts = 0
    /\ produced = AuditOk(Report_new(0))
    /\ last_env = NoEnv
    /\ sleeps = 0
    /\ outcome = "none"
    /\ dispatched = Report_new(0)
    /\ chan = NoChannel
    /\ SplitIdle
    /\ AuditIdle
    /\ ReportIdle
    /\ MailIdle

\* Config::load(...).await succeeds; let mut tries = 0_u32
LoadConfig ==
    /\ main_pc = "load"
    /\ main_pc' = "audit"
    /\ tries' = 0
    /\ UNCHANGED <<conf, opts, report, dur, exit_code, mail_sent, attempts, produced,
                   last_env, sleeps, outcome, dispatched, chan>>
    /\ UNCHANGED <<svars, avars, rvars, dvars>>

\* Config::load(...).await fails: async_main returns the error
LoadConfigFails ==
    /\ main_pc = "load"
    /\ main_pc' = "exit"
    /\ exit_code' = 1
    /\ UNCHANGED <<conf, opts, tries, report, dur, mail_sent, attempts, produced,
                   last_env, sleeps, outcome, dispatched, chan>>
    /\ UNCHANGED <<svars, avars, rvars, dvars>>

\* one iteration of the loop, from the call of audit_binaries to the break
\* or to the start of the sleep
Attempt ==
    /\ main_pc = "audit"
    /\ \E env \in ProcessEnvs :
      \E ret \in {audit_binaries(conf, WatchPaths, env, attempts + 1)} :
        LET t == tries + 1
        IN  /\ produced' = ret
            /\ last_env' = env
            /\ report' = ret.report
            /\ attempts' = attempts + 1
            /\ IF BreaksLoop(ret)
               THEN /\ main_pc' = "send"
                    /\ outcome' = "Success"
                    /\ UNCHANGED <<tries, dur, sleeps>>
               ELSE /\ tries' = t
                    /\ IF GiveUp(t, conf)
                       THEN /\ main_pc' = "send"
                            /\ outcome' = "GivenUp"
                            /\ UNCHANGED <<dur, sleeps>>
                       ELSE /\ main_pc' = "sleep"
                            /\ dur' = Backoff(t)
                            /\ sleeps' = sleeps + 1
                            /\ UNCHANGED outcome
    /\ UNCHANGED <<conf, opts, exit_code, mail_sent, dispatched, chan>>
    /\ UNCHANGED <<svars, avars, rvars, dvars>>

\* sleep(Duration::from_secs(dur)).await returns: the loop starts over
Wake ==
    /\ main_pc = "sleep"
    /\ main_pc' = "audit"
    /\ dur' = 0
    /\ UNCHANGED <<conf, opts, tries, report, exit_code, mail_sent, attempts, produced,
                   last_env, sleeps, outcome, dispatched, chan>>
    /\ UNCHANGED <<svars, avars, rvars, dvars>>

\* send_report(&conf, &report).await.context("Send report e-mail")?
SendReport ==
    /\ main_pc = "send"
    /\ \E fail_at \in 0..Len(conf.mail_to) :
        LET res == mail_send_report(conf, report, fail_at)
        IN  /\ mail_sent' = res.sent
            /\ chan' = [chan EXCEPT !["mail"] =
                          IF ~MailEnabled(conf) THEN @
                          ELSE IF res.ok THEN "ok" ELSE "err"]
            /\ IF res.ok
               THEN /\ main_pc' = "notify"
                    /\ UNCHANGED exit_code
               ELSE /\ main_pc' = "exit"
                    /\ exit_code' = 1
    /\ dispatched' = report
    /\ UNCHANGED <<conf, opts, tries, report, dur, attempts, produced, last_env, sleeps,
                   outcome>>
    /\ UNCHANGED <<svars, avars, rvars, dvars>>

\* systemd_notify_ready() unless --no-systemd, then Ok(()): main returns
NotifyReady ==
    /\ main_pc = "notify"
    /\ \E notified \in BOOLEAN :
        /\ opts.no_systemd => notified
        /\ exit_code' = IF notified THEN 0 ELSE 1
    /\ main_pc' = "exit"
    /\ UNCHANGED <<conf, opts, tries, report, dur, mail_sent, attempts, produced,
                   last_env, sleeps, outcome, dispatched, chan>>
    /\ UNCHANGED <<svars, avars, rvars, dvars>>

Next == LoadConfig \/ LoadConfigFails \/ Attempt \/ Wake \/ SendReport \/ NotifyReady

Spec == MainInit /\ [][Next]_vars

----------------------------------------------------------------------------
(* A Report under Report::new, add, add_message, fail and its Display,     *)
(* src/report.rs:29-106.                                                   *)

ReportPaths == {"/usr/bin/tool", "/opt/bin/x"}

\* the ReportEntry audit_binaries builds for a path and a decodable part
EntryOf(path, doc) ==
    LET v == json_from_str(doc).v
    IN  ReportEntry(path, VulnerabilitiesFound(v), doc, json_to_string_pretty(v))

ReportEntries == {EntryOf(path, doc) : path \in ReportPaths, doc \in {DocEmpty, DocVulnerable}}

WarningMessages == {Msg(FmtNotExist, "/opt/bin", <<>>, 0, 0)}
FailMessages == {Msg(FmtExec, "", <<>>, 0, 0)}

ReportInit ==
    /\ rep = Report_new(0)
    /\ rep_pc = "open"
    /\ rendered = <<>>
    /\ SplitIdle
    /\ AuditIdle
    /\ MainIdle
    /\ MailIdle

\* Report::new()
ReportNew ==
    /\ rep_pc # "idle"
    /\ rep.stamp < MaxStamp
    /\ rep' = Report_new(rep.stamp + 1)
    /\ rep_pc' = "open"
    /\ rendered' = <<>>
    /\ UNCHANGED <<svars, avars, mvars, dvars>>

\* report.add(entry)
ReportAdd ==
    /\ rep_pc # "idle"
    /\ Len(rep.entries) < MaxEntries
    /\ \E entry \in ReportEntries : rep' = Report_add(rep, entry)
    /\ rep_pc' = "open"
    /\ rendered' = <<>>
    /\ UNCHANGED <<svars, avars, mvars, dvars>>

\* report.add_message(msg)
ReportAddMessage ==
    /\ rep_pc # "idle"
    /\ Len(rep.messages) < MaxMessages
    /\ \E msg \in WarningMessages : rep' = Report_add_message(rep, msg)
    /\ rep_pc' = "open"
    /\ rendered' = <<>>
    /\ UNCHANGED <<svars, avars, mvars, dvars>>

\* report = report.fail(message)
ReportFail ==
    /\ rep_pc # "idle"
    /\ Len(rep.messages) < MaxMessages
    /\ \E msg \in FailMessages : rep' = Report_fail(rep, msg)
    /\ rep_pc' = "open"
    /\ rendered' = <<>>
    /\ UNCHANGED <<svars, avars, mvars, dvars>>

\* format!("{report}")
ReportFormat ==
    /\ rep_pc = "open"
    /\ rendered' = Display(rep)
    /\ rep_pc' = "rendered"
    /\ UNCHANGED rep
    /\ UNCHANGED <<svars, avars, mvars, dvars>>

ReportNext == ReportNew \/ ReportAdd \/ ReportAddMessage \/ ReportFail \/ ReportFormat

SpecReport == ReportInit /\ [][ReportNext]_vars

----------------------------------------------------------------------------
(* report::mail::send_report, src/report/mail.rs:14-76: one task per       *)
(* message, each holding a permit of the semaphore while it sends; the     *)
(* caller joins the tasks in the order they complete and returns at the    *)
(* first error, which drops the JoinSet and aborts the tasks left.         *)

AddressBook ==
    <<"a@example.com", "b@example.com", "c@example.com", "d@example.com", "e@example.com">>

MailTo ==
    {SubSeq(AddressBook, 1, k) : k \in 0..MaxRecipients}
    \cup { <<"a@example.com", "not an address">> }

MailConfigs ==
    {[Conf(0, FALSE, FALSE, to, TRUE, TRUE, "none", "none")
         EXCEPT !.mail_max_concurrency = k] : to \in MailTo, k \in 0..MaxConcurrency}
    \cup {Conf(0, FALSE, disabled, to, from_ok, relay_ok, "none", "none") :
             disabled \in BOOLEAN, to \in { <<>>, <<"a@example.com">> },
             from_ok \in BOOLEAN, relay_ok \in BOOLEAN}

VulnerableEntry == EntryOf("/usr/bin/tool", DocVulnerable)

\* a clean Report, one with a finding, a failed one, a failed one with a finding
MailReports ==
    { Report_new(1),
      Report_add(Report_new(1), VulnerableEntry),
      Report_fail(Report_new(1), Msg(FmtExec, "", <<>>, 0, 0)),
      Report_fail(Report_add(Report_new(1), VulnerableEntry),
                  Msg(FmtStderrUtf8, "", <<>>, 0, 0)) }

MailInit ==
    /\ mail_conf \in MailConfigs
    /\ mail_report \in MailReports
    /\ mail_pc = "start"
    /\ mail_messages = <<>>
    /\ tasks = <<>>
    /\ permits = 0
    /\ completed = <<>>
    /\ mail_result = "none"
    /\ outbox = <<>>
    /\ SplitIdle
    /\ AuditIdle
    /\ MainIdle
    /\ ReportIdle

\* the channel is disabled or has no recipient: return Ok(())
MailSkipped ==
    /\ mail_pc = "start"
    /\ mail_conf.mail_disabled \/ mail_conf.mail_to = <<>>
    /\ mail_pc' = "done"
    /\ mail_result' = "ok"
    /\ UNCHANGED <<mail_conf, mail_report, mail_messages, tasks, permits, completed, outbox>>
    /\ UNCHANGED <<svars, avars, mvars, rvars>>

\* an address or the relay URL does not parse: `?` returns the error
MailRejected ==
    /\ mail_pc = "start"
    /\ ~mail_conf.mail_disabled
    /\ mail_conf.mail_to # <<>>
    /\ \/ ~mail_conf.mail_from_ok
       \/ \E i \in 1..Len(mail_conf.mail_to) : ~AddressOk(mail_conf.mail_to[i])
       \/ ~mail_conf.mail_relay_ok
    /\ mail_pc' = "done"
    /\ mail_result' = "err"
    /\ UNCHANGED <<mail_conf, mail_report, mail_messages, tasks, permits, completed, outbox>>
    /\ UNCHANGED <<svars, avars, mvars, rvars>>

\* the messages are built, the semaphore is created and one task per message
\* is spawned
MailSpawn ==
    /\ mail_pc = "start"
    /\ ~mail_conf.mail_disabled
    /\ mail_conf.mail_to # <<>>
    /\ mail_conf.mail_from_ok
    /\ \A i \in 1..Len(mail_conf.mail_to) : AddressOk(mail_conf.mail_to[i])
    /\ mail_conf.mail_relay_ok
    /\ mail_messages' = [i \in 1..Len(mail_conf.mail_to) |->
                            MailMessage(mail_conf, mail_conf.mail_to[i], mail_report)]
    /\ permits' = MaxConcurrencyOf(mail_conf)
    /\ tasks' = [i \in 1..Len(mail_conf.mail_to) |-> "waiting"]
    /\ mail_pc' = "join"
    /\ UNCHANGED <<mail_conf, mail_report, completed, mail_result, outbox>>
    /\ UNCHANGED <<svars, avars, mvars, rvars>>

\* mutant: a permit is handed out whether one is free or not
PermitAlways(p) == TRUE

\* sema.acquire_owned().await returns when a permit is free
PermitAvailable(p) == p > 0

\* a task gets its permit and starts transport.send(message)
TaskAcquire ==
    /\ mail_pc = "join"
    /\ \E i \in DOMAIN tasks :
        /\ tasks[i] = "waiting"
        /\ PermitAvailable(permits)
        /\ tasks' = [tasks EXCEPT ![i] = "sending"]
        /\ permits' = permits - 1
        /\ outbox' = Append(outbox, mail_messages[i])
    /\ UNCHANGED <<mail_conf, mail_report, mail_pc, mail_messages, completed, mail_result>>
    /\ UNCHANGED <<svars, avars, mvars, rvars>>

\* transport.send(message).await returns; the task ends and drops its permit
TaskSendDone ==
    /\ mail_pc = "join"
    /\ \E i \in DOMAIN tasks, sent \in BOOLEAN :
        /\ tasks[i] = "sending"
        /\ tasks' = [tasks EXCEPT ![i] = IF sent THEN "ok" ELSE "err"]
        /\ permits' = permits + 1
        /\ completed' = Append(completed, i)
    /\ UNCHANGED <<mail_conf, mail_report, mail_pc, mail_messages, mail_result, outbox>>
    /\ UNCHANGED <<svars, avars, mvars, rvars>>

\* set.join_next().await yields Ok: the loop goes on, and returns Ok(()) once
\* the set is empty
JoinOk ==
    /\ mail_pc = "join"
    /\ completed # <<>>
    /\ tasks[Head(completed)] = "ok"
    /\ tasks' = [tasks EXCEPT ![Head(completed)] = "joined"]
    /\ completed' = Tail(completed)
    /\ IF \A i \in DOMAIN tasks : tasks'[i] = "joined"
       THEN mail_pc' = "done" /\ mail_result' = "ok"
       ELSE UNCHANGED <<mail_pc, mail_result>>
    /\ UNCHANGED <<mail_conf, mail_report, mail_messages, permits, outbox>>
    /\ UNCHANGED <<svars, avars, mvars, rvars>>

\* set.join_next().await yields the error of a send: `??` returns it, the
\* JoinSet is dropped and the tasks that have not ended are aborted
JoinErr ==
    /\ mail_pc = "join"
    /\ completed # <<>>
    /\ tasks[Head(completed)] = "err"
    /\ tasks' = [i \in DOMAIN tasks |->
                    IF i = Head(completed) THEN "joined"
                    ELSE IF tasks[i] \in {"waiting", "sending"} THEN "aborted"
                    ELSE tasks[i]]
    /\ permits' = permits + Cardinality({i \in DOMAIN tasks : tasks[i] = "sending"})
    /\ completed' = Tail(completed)
    /\ mail_pc' = "done"
    /\ mail_result' = "err"
    /\ UNCHANGED <<mail_conf, mail_report, mail_messages, outbox>>
    /\ UNCHANGED <<svars, avars, mvars, rvars>>

MailNext ==
    MailSkipped \/ MailRejected \/ MailSpawn \/ TaskAcquire \/ TaskSendDone \/ JoinOk \/ JoinErr

SpecMail == MailInit /\ [][MailNext]_vars

\* the runtime keeps polling: a step that can be taken is taken in the end
SpecMailFair == SpecMail /\ WF_vars(MailNext)

----------------------------------------------------------------------------
(* Inputs of SpecSplit: every text over Alphabet up to MaxLen, and the     *)
(* well-formed concatenations of object literals built by grammar:         *)
(*   string ::= '"' unit* '"'    unit ::= plain | '\' any                   *)
(*   object ::= '{' item* '}'    item ::= object | string | letter | space *)

StringUnits ==
    {<<c>> : c \in {LBRACE, RBRACE, LETTER}} \cup {<<BSLASH, c>> : c \in {QUOTE, BSLASH}}

StringLits == {<<QUOTE>> \o Flatten(us) \o <<QUOTE>> : us \in Texts(StringUnits, 1)}

FlatItems == StringLits \cup {<<LETTER>>, <<SPACE>>}

ObjOf(items) == {<<LBRACE>> \o Flatten(is) \o <<RBRACE>> : is \in Texts(items, 1)}

ObjLits == ObjOf(FlatItems \cup ObjOf(FlatItems))

Gaps == {<<>>, <<SPACE>>}

\* gap obj gap obj ... gap
RECURSIVE Concat(_, _)
Concat(os, gap) ==
    IF os = <<>> THEN gap ELSE gap \o Head(os) \o Concat(Tail(os), gap)

\* the inputs of the unit tests (src/audit.rs:230-292)
TestSingleObject == <<LBRACE, QUOTE, "a", QUOTE, COLON, "1", RBRACE>>
TestSecondObject == <<LBRACE, QUOTE, "b", QUOTE, COLON, "2", RBRACE>>
TestBracesInString ==
    <<LBRACE, QUOTE, "s", QUOTE, COLON, QUOTE, RBRACE, LBRACE, QUOTE, RBRACE>>
TestUnterminatedString == <<LBRACE, QUOTE, "a", QUOTE, COLON, QUOTE, "b", RBRACE>>
TestTrailingBackslash == <<LBRACE, QUOTE, "a", QUOTE, COLON, QUOTE, "b", BSLASH>>
TestTrailingGarbage ==
    <<LBRACE, RBRACE, SPACE, "g", "a", "r", "b", "a", "g", "e">>

TestInputs ==
    { [text |-> <<SPACE, SPACE>> \o TestSingleObject \o <<SPACE, SPACE>>, wf |-> TRUE,
       objs |-> <<TestSingleObject>>],
      [text |-> TestSingleObject \o <<NEWLINE, NEWLINE>> \o TestSecondObject,
       wf |-> TRUE, objs |-> <<TestSingleObject, TestSecondObject>>],
      [text |-> TestBracesInString \o DocEmpty, wf |-> TRUE,
       objs |-> <<TestBracesInString, DocEmpty>>],
      [text |-> TestUnterminatedString, wf |-> FALSE, objs |-> <<>>],
      [text |-> TestTrailingBackslash, wf |-> FALSE, objs |-> <<>>],
      [text |-> TestTrailingGarbage, wf |-> FALSE, objs |-> <<>>] }

SplitInputs ==
    {[text |-> t, wf |-> FALSE, objs |-> <<>>] : t \in Texts(Alphabet, MaxLen)}
    \cup {[text |-> Concat(os, g), wf |-> TRUE, objs |-> os] :
             os \in Texts(ObjLits, MaxObjs), g \in Gaps}
    \cup TestInputs

SplitInit ==
    /\ \E src \in SplitInputs :
        /\ input = src.text
        /\ objs = [wf |-> src.wf, objs |-> src.objs]
    /\ expected_nr_parts \in {0, MaxExpected}
    /\ pos = 1
    /\ parts = SplitStart.parts
    /\ part = SplitStart.part
    /\ indent = SplitStart.indent
    /\ in_string = SplitStart.in_string
    /\ escape = SplitStart.escape
    /\ split_pc = "scan"
    /\ split_result = SplitOk(<<>>)
    /\ AuditIdle
    /\ MainIdle
    /\ ReportIdle
    /\ MailIdle

SplitState ==
    [parts |-> parts, part |-> part, indent |-> indent, in_string |-> in_string,
     escape |-> escape]

\* for c in input.chars() { ... }
ScanChar ==
    /\ split_pc = "scan"
    /\ pos <= Len(input)
    /\ LET st == SplitStep(SplitState, input[pos])
       IN  /\ parts' = st.parts
           /\ part' = st.part
           /\ indent' = st.indent
           /\ in_string' = st.in_string
           /\ escape' = st.escape
    /\ pos' = pos + 1
    /\ UNCHANGED <<input, expected_nr_parts, split_pc, split_result, objs>>
    /\ UNCHANGED <<avars, mvars, rvars, dvars>>

\* the checks after the loop and the return
ScanEnd ==
    /\ split_pc = "scan"
    /\ pos > Len(input)
    /\ split_result' = SplitFinish(SplitState)
    /\ split_pc' = "done"
    /\ UNCHANGED <<input, expected_nr_parts, pos, parts, part, indent, in_string,
                   escape, objs>>
    /\ UNCHANGED <<avars, mvars, rvars, dvars>>

SplitNext == ScanChar \/ ScanEnd

SpecSplit == SplitInit /\ [][SplitNext]_vars

----------------------------------------------------------------------------
(* Claims about split_json_parts, checked under SpecSplit.                 *)

SplitDone == split_pc = "done"

\* C7: a well-formed concatenation of N object literals (N >= 0, any gaps,
\* nesting, strings holding braces) splits into exactly those N literals in
\* order, whatever the capacity hint; one clean object yields the trimmed
\* input as the only part.
C7_WellFormedSplit ==
    (SplitDone /\ objs.wf) =>
        /\ split_result = SplitOk(objs.objs)
        /\ Len(objs.objs) = 1 => split_result.parts = <<Trim(input)>>

\* two objects, the first holding the string "}" , split under a capacity
\* hint that differs from the number of parts
C7_Witness ==
    /\ SplitDone
    /\ objs.wf
    /\ objs.objs = <<(<<LBRACE, QUOTE, RBRACE, QUOTE, RBRACE>>), (<<LBRACE, LBRACE, RBRACE, RBRACE>>)>>
    /\ input[1] = SPACE
    /\ expected_nr_parts # Len(objs.objs)
    /\ split_result.ok
    /\ Len(split_result.parts) = 2

\* length of the run of backslashes that ends the text
RECURSIVE TrailingBackslashes(_)
TrailingBackslashes(t) ==
    IF t # <<>> /\ t[Len(t)] = BSLASH
    THEN 1 + TrailingBackslashes(SubSeq(t, 1, Len(t) - 1))
    ELSE 0

\* C8 as stated: every input whose last character is a backslash yields the
\* error "trailing backslash", inside a quoted string or not.
C8_Original ==
    (SplitDone /\ input # <<>> /\ input[Len(input)] = BSLASH) =>
        split_result = SplitErr(ErrTrailingBackslash)

\* C8 amended: the result is the error "trailing backslash" exactly when the
\* input ends, inside a quoted string, with a backslash that is not itself
\* escaped (the run of backslashes ending the input has odd length); a final
\* backslash outside a string, or an escaped one, yields another outcome.
\* That other outcome is an error too: no input ending in a backslash splits.
C8_TrailingBackslash ==
    SplitDone =>
        /\ split_result = SplitErr(ErrTrailingBackslash)
                <=> (in_string /\ TrailingBackslashes(input) % 2 = 1)
        /\ (input # <<>> /\ input[Len(input)] = BSLASH) => ~split_result.ok

\* an input like {"\ : the error is reported
C8_Witness ==
    /\ SplitDone
    /\ input = <<LBRACE, QUOTE, BSLASH>>
    /\ split_result = SplitErr(ErrTrailingBackslash)

----------------------------------------------------------------------------
(* Claims about audit_binaries, checked under SpecAudit.                   *)

AuditDone == audit_pc = "done"
AuditReport == audit_returned.report
AuditBins == BinsOf(WatchPaths, audit_env)
AuditSplit == split_json_parts(audit_env.stdout, Len(AuditBins))
LastMessage(r) == r.messages[Len(r.messages)]

\* the auditor ran, its output is text that splits, and the counts differ
CountMismatchCase ==
    /\ EnumOf(WatchPaths, audit_env).go
    /\ AuditBins # <<>>
    /\ audit_env.spawn_ok
    /\ audit_env.stdout_utf8
    /\ AuditSplit.ok
    /\ Len(AuditSplit.parts) # Len(AuditBins)

\* C9: when the number of parts split from the auditor's stdout differs from
\* the number of binaries submitted, audit_binaries returns Err with a failed
\* Report that carries the count-mismatch message and holds no entry.
C9_CountMismatch ==
    (AuditDone /\ CountMismatchCase) =>
        /\ ~audit_returned.ok
        /\ AuditReport.failed
        /\ AuditReport.entries = <<>>
        /\ LastMessage(AuditReport)
             = Msg(FmtCount, "", <<>>, Len(AuditSplit.parts), Len(AuditBins))

\* three binaries, two parts that both decode: still no entry
C9_Witness ==
    /\ AuditDone
    /\ CountMismatchCase
    /\ Len(AuditBins) = 3
    /\ AuditSplit.parts = <<DocVulnerable, DocEmpty>>
    /\ AuditReport.failed
    /\ AuditReport.entries = <<>>

\* index of the first part that is no JSON, or one past the last part
FirstUndecodable(ps) ==
    IF \E i \in 1..Len(ps) : ~json_from_str(Trim(ps[i])).ok
    THEN CHOOSE i \in 1..Len(ps) :
            /\ ~json_from_str(Trim(ps[i])).ok
            /\ \A j \in 1..(i - 1) : json_from_str(Trim(ps[j])).ok
    ELSE Len(ps) + 1

\* C10 as stated: every failed Report an attempt returns has no entries.
C10_Original ==
    (AuditDone /\ AuditReport.failed) => AuditReport.entries = <<>>

\* C10 amended: an attempt that aborts on a directory read error, a spawn
\* failure, output that is no valid text, a split error or a count mismatch
\* returns a failed Report with no entries; one that aborts on the JSON-decode
\* failure of part i keeps the i-1 entries already added for the parts before
\* it, and one that aborts on stderr that is no valid text keeps all entries
\* (Report::fail clones the report, entries included).
C10_AbortEntries ==
    (AuditDone /\ AuditReport.failed) =>
        LET fmt == LastMessage(AuditReport).fmt
            entries == AuditReport.entries
        IN  /\ ~audit_returned.ok
            /\ fmt \in {FmtReadDir, FmtReadDirEntry, FmtStatDirEntry, FmtExec,
                        FmtStdoutUtf8, FmtSplit, FmtCount, FmtParseJson, FmtStderrUtf8}
            /\ fmt \notin {FmtParseJson, FmtStderrUtf8} => entries = <<>>
            /\ fmt = FmtParseJson =>
                    Len(entries) = FirstUndecodable(AuditSplit.parts) - 1
            /\ fmt = FmtStderrUtf8 => Len(entries) = Len(AuditBins)
            /\ \A j \in 1..Len(entries) :
                    /\ entries[j].path = AuditBins[j]
                    /\ entries[j].json = AuditSplit.parts[j]

\* the third of three parts is no JSON: the failed Report keeps two entries
C10_Witness ==
    /\ AuditDone
    /\ AuditReport.failed
    /\ LastMessage(AuditReport).fmt = FmtParseJson
    /\ Len(AuditBins) = 3
    /\ FirstUndecodable(AuditSplit.parts) = 3
    /\ Len(AuditReport.entries) = 2

----------------------------------------------------------------------------
(* Claims about the retry loop, the dispatch and the exit status, checked  *)
(* under Spec.                                                             *)

LoopEnded == outcome # "none"
InLoop == main_pc \in {"audit", "sleep"}
Exited == main_pc = "exit"

\* min(configured tries, 30), the default being 5
ExpectedAttempts ==
    IF conf.tries = 0 THEN 5 ELSE IF conf.tries > 30 THEN 30 ELSE conf.tries

\* C1: when every attempt yields a failed Report the loop makes exactly
\* min(configured tries, 30) attempts, never fewer and never more, and then
\* ends in GivenUp yielding the Report of the last attempt.
C1_GiveUpExactly ==
    /\ attempts <= ExpectedAttempts
    /\ (InLoop /\ tries = attempts) => attempts < ExpectedAttempts
    /\ (LoopEnded /\ tries = attempts) =>
            /\ attempts = ExpectedAttempts
            /\ outcome = "GivenUp"
            /\ report = produced.report
            /\ report.failed

\* 31 tries configured, all attempts failed: the loop gave up after 30
C1_Witness ==
    /\ LoopEnded
    /\ conf.tries > 30
    /\ tries = attempts
    /\ attempts = 30
    /\ outcome = "GivenUp"

\* 2, 4, 8, 16, 32, 64, 120, 120, ...
ExpectedBackoff(k) == IF k <= 6 THEN <<2, 4, 8, 16, 32, 64>>[k] ELSE 120

\* C2: after the k-th failed attempt that is not the last allowed one the
\* loop sleeps min(2 * 2^(k-1), 120) seconds; there is no sleep after the
\* final attempt or after a successful one; the shift and the product stay
\* inside 64 bits for every k up to 29.
C2_Backoff ==
    /\ main_pc = "sleep" =>
            /\ tries = attempts
            /\ sleeps = attempts
            /\ attempts < ExpectedAttempts
            /\ attempts <= 29
            /\ produced.report.failed
            /\ dur = ExpectedBackoff(attempts)
            /\ tries - 1 <= U64Bits - 2
    /\ main_pc = "audit" => sleeps = attempts
    /\ LoopEnded => sleeps = attempts - 1

\* the sleep after the 29th failed attempt lasts 120 seconds
C2_Witness ==
    /\ main_pc = "sleep"
    /\ attempts = 29
    /\ dur = 120

\* C3: as soon as an attempt yields a Report that is not failed, the loop
\* ends in Success yielding exactly that Report, with no further attempt and
\* no backoff sleep, however many failed attempts preceded it.
C3_Success ==
    (attempts > 0 /\ ~produced.report.failed) =>
        /\ LoopEnded
        /\ ~InLoop
        /\ outcome = "Success"
        /\ report = produced.report
        /\ tries = attempts - 1
        /\ sleeps = attempts - 1
        /\ dur = 0

\* success at the 30th attempt, after 29 failed ones
C3_Witness ==
    /\ outcome = "Success"
    /\ attempts = 30
    /\ tries = 29
    /\ ~report.failed
    /\ Len(report.entries) = 2

AbortFmts ==
    {FmtReadDir, FmtReadDirEntry, FmtStatDirEntry, FmtExec, FmtStdoutUtf8, FmtSplit,
     FmtCount, FmtParseJson, FmtStderrUtf8}

AbortMessages(r) == {i \in 1..Len(r.messages) : r.messages[i].fmt \in AbortFmts}

\* C4: the Report handed to dispatch is the Report the last attempt
\* produced: it was created in that attempt, its entries are entries of the
\* binaries that attempt enumerated, and it holds no message of an earlier
\* failed attempt (at most the one abort message of the last attempt).
C4_NoCarryover ==
    main_pc \in {"notify", "exit"} /\ LoopEnded =>
        /\ dispatched = produced.report
        /\ dispatched.stamp = attempts
        /\ Len(dispatched.entries) <= Len(BinsOf(WatchPaths, last_env))
        /\ \A j \in 1..Len(dispatched.entries) :
                dispatched.entries[j].path = BinsOf(WatchPaths, last_env)[j]
        /\ AbortMessages(dispatched)
             = IF dispatched.failed THEN {Len(dispatched.messages)} ELSE {}

\* a success after two failed attempts is dispatched
C4_Witness ==
    /\ main_pc = "notify"
    /\ attempts = 3
    /\ tries = 2
    /\ ~dispatched.failed
    /\ Len(dispatched.entries) = 2
    /\ Len(mail_sent) = 1

EnabledChannels ==
    {c \in Channels :
        \/ c = "mail" /\ MailEnabled(conf)
        \/ c = "file" /\ FileEnabled(conf)
        \/ c = "command" /\ CommandEnabled(conf)}

\* C5 as stated: the process exits non-zero if the final Report is failed,
\* and if dispatch failed on an enabled channel; it exits zero only when the
\* final Report is not failed and every enabled channel succeeded.
C5_Original ==
    (Exited /\ LoopEnded) =>
        /\ report.failed => exit_code # 0
        /\ (\E c \in EnabledChannels : chan[c] = "err") => exit_code # 0
        /\ exit_code = 0 =>
                /\ ~report.failed
                /\ \A c \in EnabledChannels : chan[c] = "ok"

\* C6 as stated: once the audit cycle has ended every enabled channel is
\* attempted with the final Report, whatever the other channels do, and the
\* caller learns of a failed channel.
C6_Original ==
    (Exited /\ LoopEnded) =>
        /\ \A c \in EnabledChannels : chan[c] # "not_attempted"
        /\ (\E c \in EnabledChannels : chan[c] = "err") => exit_code # 0

----------------------------------------------------------------------------
(* Claims about the scan of split_json_parts, checked under SpecSplit.     *)

Scanning == split_pc = "scan" /\ pos <= Len(input)

\* C18: inside a quoted string an opening or closing brace leaves the brace
\* depth (and the emitted parts) alone; the character after a backslash in a
\* string is consumed: it toggles neither the string flag nor the depth and
\* starts no escape of its own; an unescaped quote does toggle the flag.  The
\* object whose string value is "}{" followed by {} splits into those two.
C18_StringHandling ==
    /\ [][Scanning =>
            LET c == input[pos]
            IN  /\ (in_string /\ c \in {LBRACE, RBRACE}) =>
                        (indent' = indent /\ parts' = parts)
                /\ escape =>
                        /\ in_string
                        /\ in_string' = in_string
                        /\ indent' = indent
                        /\ ~escape'
                /\ (~escape /\ c = QUOTE) => in_string' = ~in_string
                /\ (~escape /\ in_string /\ c = BSLASH) => escape']_vars
    /\ [](SplitDone /\ input = TestBracesInString \o DocEmpty =>
            split_result = SplitOk(<<TestBracesInString, DocEmpty>>))

\* the object holding "}{" followed by {} has been split into the two
C18_Witness ==
    /\ SplitDone
    /\ input = TestBracesInString \o DocEmpty
    /\ split_result.ok
    /\ Len(split_result.parts) = 2

\* braces of a text outside its quoted strings: <<opening, closing>>
RECURSIVE BracesOutside(_, _, _, _)
BracesOutside(t, i, str, esc) ==
    IF i > Len(t) THEN <<0, 0>>
    ELSE LET c == t[i]
             rest == BracesOutside(t, i + 1,
                        IF ~esc /\ c = QUOTE THEN ~str ELSE str,
                        ~esc /\ str /\ c = BSLASH)
         IN  IF esc \/ str THEN rest
             ELSE IF c = LBRACE THEN <<rest[1] + 1, rest[2]>>
             ELSE IF c = RBRACE THEN <<rest[1], rest[2] + 1>>
             ELSE rest

IsObjectLiteral(t) ==
    /\ t # <<>>
    /\ t[1] = LBRACE
    /\ t[Len(t)] = RBRACE
    /\ BracesOutside(t, 1, FALSE, FALSE)[1] = BracesOutside(t, 1, FALSE, FALSE)[2]

\* C19 as stated: on Ok every emitted part begins with an opening brace,
\* ends with a closing brace and has equally many of both outside strings;
\* a closing brace met at depth zero outside a string emits no part.
C19_Original ==
    /\ [](SplitDone /\ split_result.ok =>
            \A i \in 1..Len(split_result.parts) : IsObjectLiteral(split_result.parts[i]))
    /\ [][(Scanning /\ ~escape /\ ~in_string /\ indent = 0 /\ input[pos] = RBRACE)
            => parts' = parts]_vars

\* C20: at the end of the scan the result is Ok exactly when no escape is
\* pending, the scan is outside a string, the depth is zero and only
\* whitespace follows the last emitted part; otherwise it is the first error
\* that applies, in the order trailing backslash, unterminated string,
\* mismatched braces, trailing garbage.
C20_Classification ==
    SplitDone =>
        /\ split_result.ok <=>
                (~escape /\ ~in_string /\ indent = 0 /\ Trim(part) = <<>>)
        /\ split_result.ok => split_result.parts = parts
        /\ escape => split_result = SplitErr(ErrTrailingBackslash)
        /\ (~escape /\ in_string) => split_result = SplitErr(ErrUnterminatedString)
        /\ (~escape /\ ~in_string /\ indent # 0) =>
                split_result = SplitErr(ErrMismatchedBraces)
        /\ (~escape /\ ~in_string /\ indent = 0 /\ Trim(part) # <<>>) =>
                split_result = SplitErr(ErrTrailingGarbage)
        /\ input = <<LBRACE>> => split_result = SplitErr(ErrMismatchedBraces)
        /\ input = TestTrailingGarbage => split_result = SplitErr(ErrTrailingGarbage)

\* the input {" ends inside a string with a brace open: unterminated string
C20_Witness ==
    /\ SplitDone
    /\ input = <<LBRACE, QUOTE>>
    /\ in_string
    /\ indent = 1
    /\ split_result = SplitErr(ErrUnterminatedString)

----------------------------------------------------------------------------
(* Claims about the entries of audit_binaries, checked under SpecAudit.    *)

\* C11: an attempt that ends not failed with n >= 1 enumerated binaries
\* returns a Report of exactly n entries, the i-th with the path of the i-th
\* enumerated binary and the text of the i-th split part.
C11_Positional ==
    (AuditDone /\ ~AuditReport.failed /\ Len(AuditBins) >= 1) =>
        /\ audit_returned.ok
        /\ AuditSplit.ok
        /\ Len(AuditSplit.parts) = Len(AuditBins)
        /\ Len(AuditReport.entries) = Len(AuditBins)
        /\ \A i \in 1..Len(AuditBins) :
                /\ AuditReport.entries[i].path = AuditBins[i]
                /\ AuditReport.entries[i].json = AuditSplit.parts[i]

\* three binaries, three parts of which only the first reports a finding
C11_Witness ==
    /\ AuditDone
    /\ ~AuditReport.failed
    /\ Len(AuditBins) = 3
    /\ AuditSplit.parts = <<DocVulnerable, DocEmpty, DocEmpty>>
    /\ Len(AuditReport.entries) = 3
    /\ AuditReport.entries[1].vulnerable
    /\ ~AuditReport.entries[3].vulnerable

----------------------------------------------------------------------------
(* Claims about an attempt that finds nothing to audit, checked under Spec. *)

LastEnumeration == EnumOf(WatchPaths, last_env)

NothingToAudit == attempts > 0 /\ LastEnumeration.go /\ LastEnumeration.bins = <<>>

\* C17: when the enumeration ends with no candidate binary (paths missing,
\* paths that cannot be examined, directories without executable files) the
\* attempt records the warning, does not run the auditor and returns Ok with
\* a Report that is not failed and has no entry; the loop ends in Success on
\* that attempt.
C17_EmptyCandidates ==
    NothingToAudit =>
        /\ produced.ok
        /\ ~produced.spawned
        /\ ~produced.report.failed
        /\ produced.report.entries = <<>>
        /\ LastMessage(produced.report).fmt = FmtNoPaths
        /\ \A i \in 1..Len(produced.report.messages) :
                produced.report.messages[i].fmt \in {FmtNotExist, FmtStatFailed, FmtNoPaths}
        /\ outcome = "Success"
        /\ ~InLoop
        /\ report = produced.report
        /\ tries = attempts - 1

\* after a failed attempt, an attempt finds one path that cannot be examined
\* and a directory without executable files: Success
C17_Witness ==
    /\ NothingToAudit
    /\ attempts = 2
    /\ last_env.fs[WatchPaths[1]].kind = "stat_err"
    /\ last_env.fs[WatchPaths[2]].kind = "dir"
    /\ outcome = "Success"
    /\ Len(report.messages) = 2

----------------------------------------------------------------------------
(* Claims about Report and its Display, checked under SpecReport.          *)

\* C12: after any sequence of Report::new, add, add_message and fail the
\* Report is vulnerable exactly when one of its entries is; a Report with no
\* entries is not vulnerable.
C12_VulnerableIffEntry ==
    rep_pc # "idle" =>
        /\ rep.vulnerable <=> \E i \in 1..Len(rep.entries) : rep.entries[i].vulnerable
        /\ rep.entries = <<>> => ~rep.vulnerable

\* a failed Report whose first entry is vulnerable and whose second is not
C12_Witness ==
    /\ rep_pc # "idle"
    /\ rep.failed
    /\ Len(rep.entries) = 2
    /\ rep.entries[1].vulnerable
    /\ ~rep.entries[2].vulnerable
    /\ rep.vulnerable

IsDetail(w) == w.fmt = FmtDetail

\* one detail block per vulnerable entry, in entry order
RECURSIVE ExpectedDetails(_)
ExpectedDetails(es) ==
    IF es = <<>> THEN <<>>
    ELSE (IF Head(es).vulnerable
          THEN <<[fmt |-> FmtDetail, args |-> <<Head(es).path, Head(es).json_pretty>>]>>
          ELSE <<>>)
         \o ExpectedDetails(Tail(es))

\* C13: the text of a failed Report starts with the failed header and holds
\* no detail block; the text of a Report that is not failed holds one detail
\* block (path, then json_pretty) for each vulnerable entry, in entry order,
\* and none for the other entries.
C13_DetailRendering ==
    rep_pc = "rendered" =>
        /\ rep.failed =>
                /\ rendered[1] = [fmt |-> FmtHeaderFailed, args |-> <<rep.stamp>>]
                /\ SelectSeq(rendered, IsDetail) = <<>>
        /\ ~rep.failed =>
                /\ rendered[1].fmt = FmtHeaderResults
                /\ SelectSeq(rendered, IsDetail) = ExpectedDetails(rep.entries)

\* a failed Report holding a vulnerable entry has been formatted
C13_Witness ==
    /\ rep_pc = "rendered"
    /\ rep.failed
    /\ rep.vulnerable
    /\ Len(rep.entries) = 2
    /\ Len(rendered) = 1 + Len(rep.messages)

----------------------------------------------------------------------------
(* Claims about the mail dispatch, checked under SpecMail and Spec.        *)

MailStarted == mail_pc \in {"join", "done"}

\* the sends started and not yet completed
InFlight == Cardinality({i \in DOMAIN tasks : tasks[i] = "sending"})

\* the subject the Report calls for
ExpectedSubject ==
    << IF mail_report.failed THEN "[AUDIT FAILED] "
       ELSE IF mail_report.vulnerable THEN "[VULNERABILITIES FOUND] "
       ELSE "",
       mail_conf.mail_subject >>

SubjectAndBodyOk(m) == m.subject = ExpectedSubject /\ m.body = Display(mail_report)

\* C14: every message of a dispatch has the configured subject with the
\* failed prefix when the Report is failed (vulnerable or not), the
\* vulnerable prefix when it is vulnerable and not failed, no prefix
\* otherwise, and all messages share that subject and the body; this holds
\* for the messages of report::mail::send_report and of mail::send_report.
C14_Subject ==
    MailStarted =>
        /\ \A i \in 1..Len(mail_messages) : SubjectAndBodyOk(mail_messages[i])
        /\ \A i \in 1..Len(outbox) : SubjectAndBodyOk(outbox[i])
        /\ \A fail_at \in 0..Len(mail_conf.mail_to) :
                LET res == mail_send_report(mail_conf, mail_report, fail_at)
                IN  \A i \in 1..Len(res.sent) : SubjectAndBodyOk(res.sent[i])

\* a failed Report with a finding went to three recipients
C14_Witness ==
    /\ mail_pc = "done"
    /\ mail_result = "ok"
    /\ mail_report.failed
    /\ mail_report.vulnerable
    /\ Len(outbox) = 3
    /\ outbox[3].subject[1] = "[AUDIT FAILED] "
    /\ outbox[1].to # outbox[3].to

\* C15: in every state of a dispatch the sends in flight are at most the
\* configured max_concurrency, 1 when none is configured, whatever the
\* number of recipients and the order in which the tasks run.
C15_ConcurrencyBound ==
    MailStarted =>
        /\ InFlight <= (IF mail_conf.mail_max_concurrency = 0 THEN 1
                        ELSE mail_conf.mail_max_concurrency)
        /\ permits >= 0

\* three recipients, max_concurrency 2: two sends in flight, one task waits
C15_Witness ==
    /\ mail_pc = "join"
    /\ mail_conf.mail_max_concurrency = 2
    /\ Len(tasks) = 3
    /\ InFlight = 2
    /\ \E i \in DOMAIN tasks : tasks[i] = "waiting"

\* C16 as stated: a dispatch with the mail channel disabled or with no
\* recipient performs no send and ends in success for the channel.
C16_Original ==
    (main_pc \in {"notify", "exit"} /\ LoopEnded
        /\ (conf.mail_disabled \/ conf.mail_to = <<>>)) =>
        /\ mail_sent = <<>>
        /\ chan["mail"] # "err"

----------------------------------------------------------------------------
(* Claims about the text of a Report, checked under SpecReport.            *)

IsEntryLine(w) == w.fmt = FmtEntryLine
IsMessageLine(w) == w.fmt = FmtMessage

\* the line each entry calls for: its path, then VULNERABLE or Ok
ExpectedEntryLines(es) ==
    [i \in 1..Len(es) |->
        [fmt |-> FmtEntryLine,
         args |-> <<es[i].path, IF es[i].vulnerable THEN "VULNERABLE" ELSE "Ok">>]]

ExpectedMessageLines(ms) == [i \in 1..Len(ms) |-> [fmt |-> FmtMessage, args |-> <<ms[i]>>]]

\* C21 as stated: the text of every Report, failed or not, holds one line per
\* entry (path, then Ok or VULNERABLE) in entry order, followed by all the
\* messages in the order they were added.
C21_Original ==
    rep_pc = "rendered" =>
        /\ SelectSeq(rendered, IsEntryLine) = ExpectedEntryLines(rep.entries)
        /\ SelectSeq(rendered, IsMessageLine) = ExpectedMessageLines(rep.messages)
        /\ \A i, j \in 1..Len(rendered) :
                (IsEntryLine(rendered[i]) /\ IsMessageLine(rendered[j])) => i < j
----------------------------------------------------------------------------
(* Claims about the tasks of report::mail::send_report, checked under      *)
(* SpecMail.                                                               *)

MailReturned == mail_pc = "done"

\* the tasks whose transport.send has ended, in success or in error
Ended(i) == tasks[i] \in {"ok", "err", "joined"}

\* C22 as stated: when send_report returns, every send that has started has
\* run to completion, and no started or pending send was aborted because the
\* send to another recipient failed.
C22_Original ==
    MailReturned => \A i \in DOMAIN tasks : Ended(i)
\* the channel is enabled, and the from address, every recipient address and
\* the relay URL parse
DispatchValid ==
    /\ ~mail_conf.mail_disabled
    /\ mail_conf.mail_from_ok
    /\ \A i \in 1..Len(mail_conf.mail_to) : AddressOk(mail_conf.mail_to[i])
    /\ mail_conf.mail_relay_ok

\* a started send has ended in an error: a task holds it, or the join loop
\* has returned it
SendFailed ==
    \/ \E i \in DOMAIN tasks : tasks[i] = "err"
    \/ tasks # <<>> /\ mail_result = "err"

\* the sends started for the recipient at index i of mail.to
StartedFor(i) == {k \in 1..Len(outbox) : outbox[k].to = mail_conf.mail_to[i]}

\* one send was started for each configured recipient and no other
ExactlyOnce ==
    /\ Len(outbox) = Len(mail_conf.mail_to)
    /\ \A i \in 1..Len(mail_conf.mail_to) : Cardinality(StartedFor(i)) = 1

DeliveredOnce == MailReturned /\ mail_result = "ok" /\ ExactlyOnce

\* C23 as stated, for the state in which send_report has returned from an
\* enabled dispatch: when all addresses parse and no started send failed, it
\* returned success and one send was started for each configured recipient.
C23_Original ==
    (MailReturned /\ ~mail_conf.mail_disabled /\ mail_conf.mail_from_ok /\ ~SendFailed
        /\ \A i \in 1..Len(mail_conf.mail_to) : AddressOk(mail_conf.mail_to[i])) =>
        /\ mail_result = "ok"
        /\ ExactlyOnce

\* C23 amended: for any number of recipients and any max_concurrency >= 1 (1
\* when none is configured), if the mail channel is enabled, the from address,
\* every recipient address and the relay URL parse, and every started send
\* completes successfully, then under fair scheduling the dispatch eventually
\* returns success having started exactly one send per configured recipient;
\* at no time is a second send started for a recipient.
C23_FanOut ==
    /\ DispatchValid => <>(SendFailed \/ DeliveredOnce)
    /\ [](\A i \in 1..Len(mail_conf.mail_to) : Cardinality(StartedFor(i)) <= 1)

\* three recipients were served one at a time, the last one first
C23_Witness ==
    /\ DispatchValid
    /\ DeliveredOnce
    /\ mail_conf.mail_max_concurrency = 0
    /\ Len(mail_conf.mail_to) = 3
    /\ outbox[1].to = mail_conf.mail_to[3]
----------------------------------------------------------------------------
(* Claims about the Report an attempt returns, checked under SpecAudit.    *)

\* the auditor subprocess ran and wrote text to its standard error
AuditorWroteStderr ==
    /\ audit_returned.spawned
    /\ audit_env.spawn_ok
    /\ audit_env.stderr_utf8
    /\ Trim(audit_env.stderr) # <<>>

IsStderrMessage(m) == m.fmt = FmtStderr

\* C24 as stated: whenever the auditor subprocess ran and its standard error
\* is not empty after trimming, the Report of the attempt holds that text as
\* one message, and no Report is failed on account of that text.
C24_Original ==
    (AuditDone /\ AuditorWroteStderr) =>
        /\ SelectSeq(AuditReport.messages, IsStderrMessage)
             = <<Msg(FmtStderr, "", audit_env.stderr, 0, 0)>>
        /\ AuditReport.failed => LastMessage(AuditReport).fmt # FmtStderr
\* what add, add_message and fail make of a Report
ReportOps(r) ==
    {Report_add(r, entry) : entry \in ReportEntries}
    \cup {Report_add_message(r, msg) : msg \in WarningMessages}
    \cup {Report_fail(r, msg) : msg \in FailMessages}

IsPrefix(s, t) == Len(s) <= Len(t) /\ SubSeq(t, 1, Len(s)) = s

\* C25: audit_binaries returns Err only with a failed Report and Ok only with
\* one that is not failed; Report::fail gives a copy of the Report it is
\* called on with failed set, the same entries and the same messages plus the
\* one message appended; add, add_message and fail never reset failed and
\* never remove an entry or a message.
C25_ResultFlagAgreement ==
    AuditDone =>
        /\ audit_returned.ok <=> ~AuditReport.failed
        /\ \A msg \in FailMessages :
                LET failed_copy == Report_fail(AuditReport, msg)
                IN  /\ failed_copy.failed
                    /\ failed_copy.entries = AuditReport.entries
                    /\ failed_copy.messages = Append(AuditReport.messages, msg)
                    /\ failed_copy.stamp = AuditReport.stamp
                    /\ failed_copy.vulnerable = AuditReport.vulnerable
        /\ \A next \in ReportOps(AuditReport) :
                /\ AuditReport.failed => next.failed
                /\ IsPrefix(AuditReport.entries, next.entries)
                /\ IsPrefix(AuditReport.messages, next.messages)

\* an attempt returned Err with a failed Report that holds entries and the
\* messages added before the failure
C25_Witness ==
    /\ AuditDone
    /\ ~audit_returned.ok
    /\ AuditReport.failed
    /\ Len(AuditReport.entries) = 2
    /\ Len(AuditReport.messages) >= 2
----------------------------------------------------------------------------
(* Claims about the construction of the messages, checked under SpecMail   *)
(* for report::mail::send_report and, through mail_send_report, for        *)
(* mail::send_report.                                                      *)

\* the from address or a recipient address does not parse
AddressRejected ==
    \/ ~mail_conf.mail_from_ok
    \/ \E i \in 1..Len(mail_conf.mail_to) : ~AddressOk(mail_conf.mail_to[i])

\* what mail::send_report does with the same configuration and Report
SequentialResults ==
    {mail_send_report(mail_conf, mail_report, fail_at) : fail_at \in 0..Len(mail_conf.mail_to)}

\* C26 as stated, for an enabled dispatch: if the from address or any
\* recipient address fails to parse, send_report returns an error and has
\* performed no send.
C26_Original ==
    (MailReturned /\ ~mail_conf.mail_disabled /\ AddressRejected) =>
        /\ mail_result = "err"
        /\ outbox = <<>>

\* C26 amended: mail dispatch builds the messages for all recipients before
\* the first send starts; if the mail channel is enabled, at least one
\* recipient is configured and the from address or any recipient address
\* fails to parse, send_report returns an error having performed zero send
\* operations, including to the recipients whose addresses are valid.
C26_AllOrNothing ==
    /\ outbox # <<>> =>
            /\ ~AddressRejected
            /\ mail_messages = [i \in 1..Len(mail_conf.mail_to) |->
                                  MailMessage(mail_conf, mail_conf.mail_to[i], mail_report)]
    /\ (MailReturned /\ ~mail_conf.mail_disabled /\ mail_conf.mail_to # <<>>
            /\ AddressRejected) =>
            /\ mail_result = "err"
            /\ outbox = <<>>
            /\ tasks = <<>>
    /\ (MailStarted /\ ~mail_conf.mail_disabled /\ mail_conf.mail_to # <<>>
            /\ AddressRejected) =>
            \A res \in SequentialResults : ~res.ok /\ res.sent = <<>>

\* the second of two recipient addresses does not parse: the dispatch has
\* returned an error and the first recipient got nothing
C26_Witness ==
    /\ MailReturned
    /\ mail_conf.mail_to = <<"a@example.com", "not an address">>
    /\ mail_conf.mail_from_ok
    /\ mail_result = "err"
    /\ outbox = <<>>
====
